---- MODULE Spec2Model ----
(***************************************************************************)
(* A model of speech-to-tweet, server and browser:                         *)
(*   - the Twitter client : postTweetThread (the Thread Publisher),        *)
(*                          postTweet, verifyTwitterCredentials and the    *)
(*                          thread branch of POST /api/post-tweet          *)
(*   - the OpenAI adapter : transcribeAudio and                            *)
(*                          processTranscriptionAndCreateTweet, with their *)
(*                          two module-level caches                        *)
(*   - the browser        : the results and processing screens, the Home   *)
(*                          page and the ProcessingSection it mounts       *)
(*                                                                         *)
(* Strings and byte buffers are kept run-length encoded: a sequence of     *)
(* runs [ch, n] with n >= 1 and no two adjacent runs of the same           *)
(* character.  The encoding is lossless and canonical, so two encodings    *)
(* are equal exactly when the strings are, and a 280-character string is   *)
(* one run.                                                                *)
(***************************************************************************)
EXTENDS Integers, Sequences, FiniteSets, TLC

VARIABLES
    env,           \* process.env: the value of each Twitter credential
    credentialCheck,  \* the frame of the check-twitter-credentials handler
    thread,        \* the frame of the postTweetThread invocation
    post,          \* the frame of the postTweet invocation
    verification,  \* the frame of the verifyTwitterCredentials invocation
    endpoint,      \* the frame of the POST /api/post-tweet handler of openai.ts
    twitterCalls,  \* every call made to the Twitter client, with its outcome
    now,           \* Date.now(), in milliseconds
    tweetGenerationCache,  \* Map: trimmed transcript -> {value, timestamp}
    seg,           \* the frames of the processTranscriptionAndCreateTweet calls
    transcriptionCache,    \* Map: buffer cache key -> {value, timestamp}
    files,         \* the files of os.tmpdir(): path -> content
    tr,            \* the frames of the transcribeAudio calls
    component,     \* the browser: the view shown and the state of its component
    dom,           \* the browser: the flags of the last committed render
    handlers,      \* the browser: the frames of the click handlers
    requests,      \* the browser: every HTTP request sent, with its response
    home,          \* the browser: the state of the Home page and of its module
    sections,      \* the browser: every ProcessingSection mounted so far
    processedAudioBlobs  \* the browser: the module-level Set of ProcessingSection

twitterVars == <<env, credentialCheck, thread, post, verification, endpoint, twitterCalls>>

segmentVars == <<tweetGenerationCache, seg>>

transcribeVars == <<transcriptionCache, files, tr>>

clientVars == <<component, dom, handlers, requests>>

homeVars == <<home, sections, processedAudioBlobs>>

vars == <<env, credentialCheck, thread, post, verification, endpoint, twitterCalls, now,
          tweetGenerationCache, seg,
          transcriptionCache, files, tr, component, dom, handlers, requests,
          home, sections, processedAudioBlobs>>

(***************************************************************************)
(* Bounds of the model                                                     *)
(***************************************************************************)
MaxThread == 3     \* longest tweets array handed to postTweetThread

MaxTicks == 2      \* how many times the clock advances in a behaviour

(***************************************************************************)
(* Strings                                                                 *)
(***************************************************************************)
Run(c, k) == [ch |-> c, n |-> k]

Str(c, k) == IF k = 0 THEN <<>> ELSE <<Run(c, k)>>

RECURSIVE StrLen(_)
StrLen(s) == IF s = <<>> THEN 0 ELSE Head(s).n + StrLen(Tail(s))

IsSpace(c) == c = " "

DropLast(s) == SubSeq(s, 1, Len(s) - 1)

TrimStart(s) == IF s # <<>> /\ IsSpace(Head(s).ch) THEN Tail(s) ELSE s

TrimEnd(s) == IF s # <<>> /\ IsSpace(s[Len(s)].ch) THEN DropLast(s) ELSE s

\* String.prototype.trim
Trim(s) == TrimEnd(TrimStart(s))

\* !text || text.trim().length === 0
IsBlank(text) == text = <<>> \/ StrLen(Trim(text)) = 0

(***************************************************************************)
(* server/twitter.ts                                                       *)
(***************************************************************************)
TWEET_LIMIT == 280

Credentials ==
    {"TWITTER_API_KEY", "TWITTER_API_SECRET",
     "TWITTER_ACCESS_TOKEN", "TWITTER_ACCESS_SECRET"}

\* What process.env holds for a name: nothing, the empty string, a value
EnvValues == {"undefined", "", "k3y"}

\* !process.env.NAME
Not(value) == value \in {"undefined", ""}

\* A push that takes the empty string for a value
PushIfUnset(missingCredentials, e, name) ==
    IF e[name] = "undefined" THEN Append(missingCredentials, name) ELSE missingCredentials

\* if (!process.env.NAME) missingCredentials.push('NAME')
PushIfMissing(missingCredentials, e, name) ==
    IF Not(e[name]) THEN Append(missingCredentials, name) ELSE missingCredentials

\* validateTwitterCredentials, lines 16-21: the four tests in their order
MissingCredentials(e) ==
    PushIfMissing(
        PushIfMissing(
            PushIfMissing(
                PushIfMissing(<<>>, e, "TWITTER_API_KEY"),
                e, "TWITTER_API_SECRET"),
            e, "TWITTER_ACCESS_TOKEN"),
        e, "TWITTER_ACCESS_SECRET")

\* The message is the fixed prefix followed by the joined names.
validateTwitterCredentials(e) ==
    LET missingCredentials == MissingCredentials(e)
        isValid == Len(missingCredentials) = 0
    IN  [isValid |-> isValid,
         missingCredentials |-> missingCredentials,
         message |-> IF isValid
                     THEN <<"Twitter API credentials are properly configured">>
                     ELSE <<"Missing Twitter API credentials: ">> \o missingCredentials]

\* The handler of GET /api/check-twitter-credentials before a request
IdleCheck == [pc |-> "idle", credentialStatus |-> <<>>, status |-> 0, body |-> <<>>]

\* GET /api/check-twitter-credentials: the handler is synchronous and sends
\* 200 with the message, or 400 with the message and the missing names.
CheckTwitterCredentials ==
    /\ credentialCheck.pc = "idle"
    /\ LET credentialStatus == validateTwitterCredentials(env)
       IN  credentialCheck' =
               [pc |-> "responded",
                credentialStatus |-> <<credentialStatus>>,
                status |-> IF credentialStatus.isValid THEN 200 ELSE 400,
                body |-> IF credentialStatus.isValid
                         THEN <<"ok", credentialStatus.message>>
                         ELSE <<"error", credentialStatus.message,
                                credentialStatus.missingCredentials>>]
    /\ UNCHANGED <<env, endpoint, verification, thread, post, twitterCalls, now,
                   segmentVars, transcribeVars, clientVars, homeVars>>

\* The texts a caller may put in a thread: empty, blank, short, padded,
\* exactly at the limit, one over the limit.
TweetTexts ==
    {<<>>, Str(" ", 2), Str("a", 1), <<Run(" ", 1), Run("b", 3)>>,
     Str("a", TWEET_LIMIT), Str("a", TWEET_LIMIT + 1)}

RECURSIVE SeqsUpTo(_, _)
SeqsUpTo(S, n) ==
    IF n = 0 THEN {<<>>}
    ELSE LET shorter == SeqsUpTo(S, n - 1)
         IN  shorter \cup {Append(q, x) : q \in {r \in shorter : Len(r) = n - 1}, x \in S}

\* The identifiers the platform may assign (response.data.id is any string).
TweetIds == {"", "1001", "1002"}

\* What a rejected rwClient.v2.tweet throws: a status code and a message,
\* either of which may be missing (code 0, message ""); the text of the
\* message may itself spell the status.
TweetErrors ==
    {[code |-> 401, message |-> "Unauthorized"],
     [code |-> 401, message |-> "Request failed with code 401"],
     [code |-> 403, message |-> "Forbidden"],
     [code |-> 429, message |-> "Too Many Requests"],
     [code |-> 0,   message |-> ""]}

\* An error of the module: what its message is made of.  http is the status
\* of a ` (HTTP ${code})` suffix, 0 when the message has none.
NoError == [kind |-> "none", tweetNo |-> 0, detail |-> "", http |-> 0]

IdleThread ==
    [pc |-> "idle", tweets |-> <<>>, i |-> 0, tweetIds |-> <<>>,
     replyToId |-> <<>>, result |-> <<>>, error |-> NoError]

\* throw new Error(...) anywhere in the body, caught at line 211 and rethrown
\* as `Twitter thread error: ${error.message}`
ThrowThread(t, kind, no, detail) ==
    [t EXCEPT !.pc = "thrown",
              !.error = [kind |-> kind, tweetNo |-> no, detail |-> detail, http |-> 0]]

\* A slip that reports the loop variable itself
TweetNumberZeroBased(i) == i

\* `#${i+1}` in the three per-tweet messages
TweetNumber(i) == i + 1

\* A slip that always sends the first element
TweetTextFirst(t) == t.tweets[1]

\* const text = tweets[i]
TweetText(t) == t.tweets[t.i + 1]

\* if (!replyToId) tweet(text) else tweet(text, {reply: {in_reply_to_tweet_id}})
\* replyToId is <<>> while undefined and <<id>> once assigned; the empty
\* string is falsy.
ReplyArgument(replyToId) ==
    IF replyToId = <<>> \/ replyToId[1] = "" THEN <<>> ELSE replyToId

PendingTweet(text, reply) ==
    [op |-> "tweet", text |-> text, reply |-> reply, status |-> "pending",
     id |-> "", code |-> 0, message |-> ""]

\* array[k] (0-based) of a JavaScript array: undefined out of range
At(array, k) == IF k + 1 \in 1 .. Len(array) THEN array[k + 1] ELSE "undefined"

\* A slip that takes the last identifier as the thread identifier
ThreadResultLast(t) ==
    <<[ids |-> t.tweetIds, threadId |-> At(t.tweetIds, Len(t.tweetIds) - 1)]>>

\* return { ids: tweetIds, threadId: tweetIds[0] }
ThreadResult(t) == <<[ids |-> t.tweetIds, threadId |-> At(t.tweetIds, 0)]>>

\* One pass from the head of the for loop (line 169) to the next await, to
\* the return or to a throw.
ThreadLoop(t, calls) ==
    IF t.i >= Len(t.tweets)
    THEN [thread |-> [t EXCEPT !.pc = "returned", !.result = ThreadResult(t)],
          calls |-> calls]
    ELSE IF IsBlank(TweetText(t))
    THEN [thread |-> ThrowThread(t, "EmptyTweet", TweetNumber(t.i), "cannot be empty"),
          calls |-> calls]
    ELSE IF StrLen(TweetText(t)) > TWEET_LIMIT
    THEN [thread |-> ThrowThread(t, "TooLong", TweetNumber(t.i),
                                 "exceeds the 280 character limit"),
          calls |-> calls]
    ELSE [thread |-> [t EXCEPT !.pc = "awaitTweet"],
          calls |-> Append(calls, PendingTweet(TweetText(t), ReplyArgument(t.replyToId)))]

\* postTweetThread(tweets) up to its first await
PostTweetThread(ts) ==
    /\ thread.pc = "idle"
    /\ LET t0 == [IdleThread EXCEPT !.tweets = ts]
       IN  IF Len(ts) = 0
           THEN /\ thread' = ThrowThread(t0, "NoTweets", 0, "No tweets provided for thread")
                /\ UNCHANGED twitterCalls
           ELSE IF ~validateTwitterCredentials(env).isValid
           THEN /\ thread' = ThrowThread(t0, "MissingCredentials", 0,
                                         "Cannot post tweet thread")
                /\ UNCHANGED twitterCalls
           ELSE LET r == ThreadLoop(t0, twitterCalls)
                IN  /\ thread' = r.thread
                    /\ twitterCalls' = r.calls
    /\ UNCHANGED <<env, endpoint, verification, credentialCheck, post, now,
                   segmentVars, transcribeVars, clientVars, homeVars>>

\* lines 196-198, then the next pass of the loop
OnTweetPosted(t, tweetId) ==
    [t EXCEPT !.tweetIds = Append(t.tweetIds, tweetId),
              !.replyToId = <<tweetId>>,
              !.i = t.i + 1]

\* The platform accepts the pending tweet and assigns it tweetId.
TweetAccepted(tweetId) ==
    /\ thread.pc = "awaitTweet"
    /\ LET n == Len(twitterCalls)
           done == [twitterCalls EXCEPT ![n].status = "ok", ![n].id = tweetId]
           r == ThreadLoop(OnTweetPosted(thread, tweetId), done)
       IN  /\ thread' = r.thread
           /\ twitterCalls' = r.calls
    /\ UNCHANGED <<env, endpoint, verification, credentialCheck, post, now,
                   segmentVars, transcribeVars, clientVars, homeVars>>

\* A catch block that logs the failure and goes on with the next tweet
OnTweetErrorContinue(t, calls, err) ==
    ThreadLoop([t EXCEPT !.i = t.i + 1], calls)

\* catch (tweetError) at line 201:
\* `Failed to post tweet #${i+1} in thread: ${tweetError.message || 'Unknown error'}`
OnTweetError(t, calls, err) ==
    [thread |-> ThrowThread(t, "PublishFailed", TweetNumber(t.i),
                            IF err.message = "" THEN "Unknown error" ELSE err.message),
     calls |-> calls]

\* The platform rejects the pending tweet.
TweetRejected(err) ==
    /\ thread.pc = "awaitTweet"
    /\ LET n == Len(twitterCalls)
           done == [twitterCalls EXCEPT ![n].status = "failed",
                                        ![n].code = err.code,
                                        ![n].message = err.message]
           r == OnTweetError(thread, done, err)
       IN  /\ thread' = r.thread
           /\ twitterCalls' = r.calls
    /\ UNCHANGED <<env, endpoint, verification, credentialCheck, post, now,
                   segmentVars, transcribeVars, clientVars, homeVars>>

(***************************************************************************)
(* server/twitter.ts: postTweet                                            *)
(***************************************************************************)
IdlePost == [pc |-> "idle", text |-> <<>>, result |-> <<>>, error |-> NoError]

\* throw new Error(...) in the body of postTweet, as it leaves the function
ThrowPost(f, kind, detail) ==
    [f EXCEPT !.pc = "thrown",
              !.error = [kind |-> kind, tweetNo |-> 0, detail |-> detail, http |-> 0]]

\* A test that leaves no room for the last character
TooLongAtLimit(text) == StrLen(text) >= TWEET_LIMIT

\* text.length > 280
TooLong(text) == StrLen(text) > TWEET_LIMIT

\* postTweet(text) up to its await: the credentials, then the text
PostTweetStart(text, calls) ==
    LET f0 == [IdlePost EXCEPT !.text = text]
    IN  IF ~validateTwitterCredentials(env).isValid
        THEN [post |-> ThrowPost(f0, "MissingCredentials", "Cannot post tweet"),
              calls |-> calls]
        ELSE IF IsBlank(text)
        THEN [post |-> ThrowPost(f0, "EmptyTweet", "Tweet text cannot be empty"),
              calls |-> calls]
        ELSE IF TooLong(text)
        THEN [post |-> ThrowPost(f0, "TooLong", "Tweet exceeds the 280 character limit"),
              calls |-> calls]
        ELSE [post |-> [f0 EXCEPT !.pc = "awaitTweet"],
              calls |-> Append(calls, PendingTweet(text, <<>>))]

\* One invocation of postTweet by a caller outside the module
PostTweet(text) ==
    /\ post.pc = "idle"
    /\ endpoint.pc = "idle"
    /\ LET r == PostTweetStart(text, twitterCalls)
       IN  /\ post' = r.post
           /\ twitterCalls' = r.calls
    /\ UNCHANGED <<env, endpoint, verification, credentialCheck, thread, now,
                   segmentVars, transcribeVars, clientVars, homeVars>>

\* The platform accepts the tweet: return { id: data.id }
PostAccepted(tweetId) ==
    /\ post.pc = "awaitTweet"
    /\ endpoint.pc = "idle"
    /\ LET n == Len(twitterCalls)
       IN  /\ twitterCalls' = [twitterCalls EXCEPT ![n].status = "ok", ![n].id = tweetId]
           /\ post' = [post EXCEPT !.pc = "returned", !.result = <<[id |-> tweetId]>>]
    /\ UNCHANGED <<env, endpoint, verification, credentialCheck, thread, now,
                   segmentVars, transcribeVars, clientVars, homeVars>>

\* The platform rejects the tweet: the catch of line 251 throws
\* "Failed to post tweet" with the message of the error and, when the error
\* has a code, ` (HTTP ${code})`; the outer catch lets it through.
PostRejected(err) ==
    /\ post.pc = "awaitTweet"
    /\ endpoint.pc = "idle"
    /\ LET n == Len(twitterCalls)
       IN  /\ twitterCalls' = [twitterCalls EXCEPT ![n].status = "failed",
                                                  ![n].code = err.code,
                                                  ![n].message = err.message]
           /\ post' = [ThrowPost(post, "PublishFailed", err.message)
                          EXCEPT !.error.http = err.code]
    /\ UNCHANGED <<env, endpoint, verification, credentialCheck, thread, now,
                   segmentVars, transcribeVars, clientVars, homeVars>>

NextPost ==
    \/ \E text \in TweetTexts : PostTweet(text)
    \/ \E tweetId \in TweetIds : PostAccepted(tweetId)
    \/ \E err \in TweetErrors : PostRejected(err)

(***************************************************************************)
(* server/openai.ts: the thread branch of POST /api/post-tweet             *)
(***************************************************************************)
IdleRoute ==
    [pc |-> "idle", tweets |-> <<>>, i |-> 0, previousTweetId |-> <<>>,
     tweetIds |-> <<>>, postOptions |-> <<>>, status |-> 0, body |-> <<>>]

\* const postOptions = { text: tweetText };
\* if (previousTweetId) postOptions.reply_to = previousTweetId
PostOptions(tweetText, previousTweetId) ==
    [text |-> tweetText, reply_to |-> ReplyArgument(previousTweetId)]

\* catch (error) at line 355, for an error that is not a ZodError
RouteFailed(r) ==
    [r EXCEPT !.pc = "responded", !.status = 500, !.body = <<"Failed to post tweet">>]

\* res.json({ ids: tweetIds, threadId: tweetIds[0] })
RouteSucceeded(r) ==
    [r EXCEPT !.pc = "responded", !.status = 200,
              !.body = <<[ids |-> r.tweetIds, threadId |-> At(r.tweetIds, 0)]>>]

\* One pass from the head of the for loop (line 334) to the await of
\* postTweet, to the response or to the catch.  f is the frame of the last
\* postTweet invocation.  postTweet is given postOptions.text and nothing
\* else (line 343).
RouteLoop(r, f, calls) ==
    IF r.i >= Len(r.tweets)
    THEN [endpoint |-> RouteSucceeded(r), post |-> f, calls |-> calls]
    ELSE LET postOptions == PostOptions(r.tweets[r.i + 1], r.previousTweetId)
             started == PostTweetStart(postOptions.text, calls)
             r1 == [r EXCEPT !.postOptions = Append(r.postOptions, postOptions)]
         IN  IF started.post.pc = "thrown"
             THEN [endpoint |-> RouteFailed(r1), post |-> started.post, calls |-> calls]
             ELSE [endpoint |-> [r1 EXCEPT !.pc = "awaitPostTweet"],
                   post |-> started.post,
                   calls |-> started.calls]

\* POST /api/post-tweet with a non-empty tweets array, up to the first await
PostTweetRoute(tweets) ==
    /\ endpoint.pc = "idle"
    /\ post.pc = "idle"
    /\ Len(tweets) > 0
    /\ LET r == RouteLoop([IdleRoute EXCEPT !.tweets = tweets], post, twitterCalls)
       IN  /\ endpoint' = r.endpoint
           /\ post' = r.post
           /\ twitterCalls' = r.calls
    /\ UNCHANGED <<env, verification, credentialCheck, thread, now, segmentVars,
                   transcribeVars, clientVars, homeVars>>

\* The platform accepts the tweet: postTweet returns { id }, lines 344-345
\* record it and the loop goes on.
RoutePostAccepted(tweetId) ==
    /\ endpoint.pc = "awaitPostTweet"
    /\ LET n == Len(twitterCalls)
           done == [twitterCalls EXCEPT ![n].status = "ok", ![n].id = tweetId]
           returned == [post EXCEPT !.pc = "returned", !.result = <<[id |-> tweetId]>>]
           r == RouteLoop([endpoint EXCEPT !.previousTweetId = <<tweetId>>,
                                        !.tweetIds = Append(endpoint.tweetIds, tweetId),
                                        !.i = endpoint.i + 1],
                          returned, done)
       IN  /\ endpoint' = r.endpoint
           /\ post' = r.post
           /\ twitterCalls' = r.calls
    /\ UNCHANGED <<env, verification, credentialCheck, thread, now, segmentVars,
                   transcribeVars, clientVars, homeVars>>

\* The platform rejects the tweet: postTweet throws, the handler answers 500.
RoutePostRejected(err) ==
    /\ endpoint.pc = "awaitPostTweet"
    /\ LET n == Len(twitterCalls)
       IN  twitterCalls' = [twitterCalls EXCEPT ![n].status = "failed",
                                               ![n].code = err.code,
                                               ![n].message = err.message]
    /\ post' = [ThrowPost(post, "PublishFailed", err.message)
                   EXCEPT !.error.http = err.code]
    /\ endpoint' = RouteFailed(endpoint)
    /\ UNCHANGED <<env, verification, credentialCheck, thread, now, segmentVars,
                   transcribeVars, clientVars, homeVars>>

NextRoute ==
    \/ \E tweets \in SeqsUpTo(TweetTexts, MaxThread) : PostTweetRoute(tweets)
    \/ \E tweetId \in TweetIds : RoutePostAccepted(tweetId)
    \/ \E err \in TweetErrors : RoutePostRejected(err)

(***************************************************************************)
(* server/twitter.ts: verifyTwitterCredentials                             *)
(***************************************************************************)
IdleVerify == [pc |-> "idle", result |-> <<>>]

\* rwClient.v2.me(), a call that posts nothing
PendingMe ==
    [op |-> "me", text |-> <<>>, reply |-> <<>>, status |-> "pending",
     id |-> "", code |-> 0, message |-> ""]

\* What a resolved rwClient.v2.me() carries in data: nothing, or the user
MeData == {<<>>, <<[id |-> "7", username |-> "jd"]>>}

\* return { isValid, message, userData }
VerifyReturn(f, isValid, message, userData) ==
    [f EXCEPT !.pc = "returned",
              !.result = <<[isValid |-> isValid, message |-> message,
                            userData |-> userData]>>]

\* lines 78-87: the message for a caught error
VerifyErrorMessage(error) ==
    IF error.code = 401
    THEN <<"Twitter authentication failed. Your API credentials are invalid or expired.">>
    ELSE IF error.code = 403
    THEN <<"Permission denied. Your Twitter app may not have the required permissions.">>
    ELSE IF error.message # ""
    THEN <<"Twitter API error: ", error.message>>
    ELSE <<"Twitter API credentials are invalid or expired">>

\* A catch block that lets the error through
VerifyCaughtRethrown(f, error) == [f EXCEPT !.pc = "thrown"]

\* catch (error) at line 75: the error becomes a result
VerifyCaught(f, error) == VerifyReturn(f, FALSE, VerifyErrorMessage(error), <<>>)

\* verifyTwitterCredentials() up to its await: the presence check, then the
\* client (createTwitterClient repeats the presence check, which passes)
VerifyTwitterCredentials ==
    /\ verification.pc = "idle"
    /\ LET credentialsCheck == validateTwitterCredentials(env)
       IN  IF ~credentialsCheck.isValid
           THEN /\ verification' =
                       VerifyReturn(verification, FALSE, credentialsCheck.message, <<>>)
                /\ UNCHANGED twitterCalls
           ELSE /\ verification' = [verification EXCEPT !.pc = "awaitMe"]
                /\ twitterCalls' = Append(twitterCalls, PendingMe)
    /\ UNCHANGED <<env, endpoint, credentialCheck, thread, post, now, segmentVars,
                   transcribeVars, clientVars, homeVars>>

\* The platform answers the call.  Reading data.username of a missing data
\* throws a TypeError inside the try.
MeResolved(data) ==
    /\ verification.pc = "awaitMe"
    /\ LET n == Len(twitterCalls)
       IN  twitterCalls' =
               [twitterCalls EXCEPT ![n].status = "ok",
                                    ![n].id = IF data = <<>> THEN "" ELSE data[1].id]
    /\ verification' =
           IF data = <<>>
           THEN VerifyCaught(verification,
                             [code |-> 0, message |-> "Cannot read properties of undefined"])
           ELSE VerifyReturn(verification, TRUE,
                             <<"Twitter API credentials verified for user: ",
                               data[1].username>>,
                             data)
    /\ UNCHANGED <<env, endpoint, credentialCheck, thread, post, now, segmentVars,
                   transcribeVars, clientVars, homeVars>>

\* The platform rejects the call.
MeRejected(err) ==
    /\ verification.pc = "awaitMe"
    /\ LET n == Len(twitterCalls)
       IN  twitterCalls' = [twitterCalls EXCEPT ![n].status = "failed",
                                               ![n].code = err.code,
                                               ![n].message = err.message]
    /\ verification' = VerifyCaught(verification, err)
    /\ UNCHANGED <<env, endpoint, credentialCheck, thread, post, now, segmentVars,
                   transcribeVars, clientVars, homeVars>>

NextVerify ==
    \/ VerifyTwitterCredentials
    \/ \E data \in MeData : MeResolved(data)
    \/ \E err \in TweetErrors : MeRejected(err)

InitTwitter ==
    /\ credentialCheck = IdleCheck
    /\ verification = IdleVerify
    /\ endpoint = IdleRoute
    /\ thread = IdleThread
    /\ post = IdlePost
    /\ twitterCalls = <<>>

NextThread ==
    \/ \E ts \in SeqsUpTo(TweetTexts, MaxThread) : PostTweetThread(ts)
    \/ \E tweetId \in TweetIds : TweetAccepted(tweetId)
    \/ \E err \in TweetErrors : TweetRejected(err)
    \/ CheckTwitterCredentials

(***************************************************************************)
(* The OpenAI adapter: the caches                                          *)
(***************************************************************************)
CACHE_EXPIRATION_MS == 5 * 60 * 1000

EmptyCache == [k \in {} |-> 0]

\* One Map shared by the two caches
cleanExpiredCacheShared(cache, t) ==
    LET other == [k \in DOMAIN transcriptionCache \cup DOMAIN tweetGenerationCache |->
                     IF k \in DOMAIN transcriptionCache
                     THEN transcriptionCache[k] ELSE tweetGenerationCache[k]]
        shared == [k \in DOMAIN cache \cup DOMAIN other |->
                     IF k \in DOMAIN cache THEN cache[k] ELSE other[k]]
    IN  [k \in {h \in DOMAIN shared : ~(t - shared[h].timestamp > CACHE_EXPIRATION_MS)}
            |-> shared[k]]

\* cleanExpiredCache: delete every entry with now - timestamp > CACHE_EXPIRATION_MS
cleanExpiredCache(cache, t) ==
    [k \in {h \in DOMAIN cache : ~(t - cache[h].timestamp > CACHE_EXPIRATION_MS)}
        |-> cache[k]]

\* A set that stores nothing
CacheSetNothing(cache, key, value, t) == cache

\* cache.set(key, {value, timestamp: Date.now()})
CacheSet(cache, key, value, t) ==
    [k \in DOMAIN cache \cup {key} |->
        IF k = key THEN [value |-> value, timestamp |-> t] ELSE cache[k]]

\* The clock advances by one expiration period: an entry is then younger
\* than, exactly as old as, or older than the period.
Tick ==
    /\ now < MaxTicks * CACHE_EXPIRATION_MS
    /\ now' = now + CACHE_EXPIRATION_MS
    /\ UNCHANGED <<twitterVars, segmentVars, transcribeVars, clientVars, homeVars>>

(***************************************************************************)
(* The OpenAI adapter: processTranscriptionAndCreateTweet                   *)
(***************************************************************************)
maxRetries == 3

\* The two submissions the memoization properties speak about.
Submissions == {1, 2}

\* The transcripts submitted: empty, blank, short, the same with spaces
\* around it, and one longer than a tweet.
Transcripts ==
    {<<>>, Str(" ", 2), Str("a", 3),
     <<Run(" ", 1), Run("a", 3), Run(" ", 2)>>,
     Str("a", TWEET_LIMIT + 1)}

\* What a completed chat completion carries as message.content: a JSON object
\* with a tweets array, a JSON object without one (also content null, read as
\* "{}"), or text that JSON.parse rejects.
Completions ==
    {[kind |-> "tweets", tweets |-> <<Str("b", 5)>>],
     [kind |-> "tweets", tweets |-> <<Str("b", TWEET_LIMIT), Str("c", 7)>>],
     [kind |-> "tweets", tweets |-> <<Str("b", TWEET_LIMIT + 1)>>],
     [kind |-> "noTweets", tweets |-> <<>>],
     [kind |-> "unparsable", tweets |-> <<>>]}

\* What a failed chat completion throws: error.status (0 when there is none,
\* as for a network error) and the retry-after-ms header (<<>> when absent).
CompletionErrors ==
    {[status |-> 429, retryAfterMs |-> <<>>],
     [status |-> 429, retryAfterMs |-> <<3000>>],
     [status |-> 429, retryAfterMs |-> <<60000>>],
     [status |-> 500, retryAfterMs |-> <<>>],
     [status |-> 0, retryAfterMs |-> <<>>]}

NothingCaught == [kind |-> "none", status |-> 0]

\* The frame of one call.  Besides the locals of the function it keeps what
\* the upstream was seen to do: the number of completions requested (calls),
\* how each ended (outcomes), the retry-after-ms header of each rejection
\* (suggested), the content of the completion that resolved (received), the
\* delays handed to setTimeout (waits) and the error logged by the outer catch
\* (caught).

IdleSeg ==
    [pc |-> "idle", rawTranscript |-> <<>>, cacheKey |-> <<>>,
     retries |-> 0, calls |-> 0, outcomes |-> <<>>, waits |-> <<>>,
     suggested |-> <<>>, received |-> <<>>,
     cacheHit |-> FALSE, result |-> <<>>, caught |-> NothingCaught]

Min(a, b) == IF a < b THEN a ELSE b

\* return value
SegReturn(s, tweets) == [s EXCEPT !.pc = "returned", !.result = tweets]

\* An outer catch that falls back to the trimmed text
SegFallbackTrimmed(s, error) ==
    [SegReturn(s, <<Trim(s.rawTranscript)>>) EXCEPT !.caught = error]

\* The outer catch (line 211): log the error, return [rawTranscript]
SegFallback(s, error) ==
    [SegReturn(s, <<s.rawTranscript>>) EXCEPT !.caught = error]

\* while (retries < maxRetries) { await openai.chat.completions.create(...) },
\* and the throw after the loop (line 210)
SegLoop(s) ==
    IF s.retries < maxRetries
    THEN [s EXCEPT !.pc = "awaitCompletion", !.calls = s.calls + 1]
    ELSE SegFallback(s, [kind |-> "exhausted", status |-> 0])

\* A default delay above every cap of the backoff
RetryAfterMsDefaultMinute(err) ==
    IF err.retryAfterMs = <<>> THEN 60000 ELSE err.retryAfterMs[1]

\* parseInt(error.headers?.["retry-after-ms"] || "1000", 10)
RetryAfterMs(err) == IF err.retryAfterMs = <<>> THEN 1000 ELSE err.retryAfterMs[1]

\* A backoff that starts at the base delay
WaitTimeFromBase(err, retries) == Min(RetryAfterMs(err), 2000 * 2 ^ (retries - 1))

\* Math.min(retryAfterMs, 2000 * Math.pow(2, retries))
WaitTime(err, retries) == Min(RetryAfterMs(err), 2000 * 2 ^ retries)

\* An inner catch that goes round the loop without waiting
OnCompletionErrorNoWait(s, err, kind) ==
    LET r == s.retries + 1
        s1 == [s EXCEPT !.retries = r]
    IN  IF err.status = 429 /\ r < maxRetries
        THEN SegLoop(s1)
        ELSE SegFallback(s1, [kind |-> kind, status |-> err.status])

\* An inner catch that retries whatever the error is
OnCompletionErrorRetryAll(s, err, kind) ==
    LET r == s.retries + 1
        s1 == [s EXCEPT !.retries = r]
    IN  IF r < maxRetries
        THEN [s1 EXCEPT !.pc = "waiting", !.waits = Append(s.waits, WaitTime(err, r))]
        ELSE SegFallback(s1, [kind |-> kind, status |-> err.status])

\* The inner catch (lines 190-206)
OnCompletionError(s, err, kind) ==
    LET r == s.retries + 1
        s1 == [s EXCEPT !.retries = r]
    IN  IF err.status = 429 /\ r < maxRetries
        THEN [s1 EXCEPT !.pc = "waiting", !.waits = Append(s.waits, WaitTime(err, r))]
        ELSE SegFallback(s1, [kind |-> kind, status |-> err.status])

\* Array.isArray(parsedResponse.tweets) ? parsedResponse.tweets : [rawTranscript]
TweetThreadOf(s, completion) ==
    IF completion.kind = "tweets" THEN completion.tweets ELSE <<s.rawTranscript>>

\* A function that cleans the cache before it looks at its argument
CacheOnEntryCleaned(rawTranscript, cache, t) == cleanExpiredCache(cache, t)

\* The cache once the call is past its first lines: the blank test of line
\* 120 returns before cleanExpiredCache (line 128) is reached.
CacheOnEntry(rawTranscript, cache, t) ==
    IF IsBlank(rawTranscript) THEN cache ELSE cleanExpiredCache(cache, t)

\* A key that keeps the surrounding whitespace
TweetCacheKeyRaw(rawTranscript) == rawTranscript

\* const cacheKey = rawTranscript.trim()
TweetCacheKey(rawTranscript) == Trim(rawTranscript)

\* processTranscriptionAndCreateTweet(rawTranscript) up to its first await
ProcessTranscription(p, rawTranscript) ==
    /\ seg[p].pc = "idle"
    /\ LET s0 == [IdleSeg EXCEPT !.rawTranscript = rawTranscript]
           cleaned == CacheOnEntry(rawTranscript, tweetGenerationCache, now)
           cacheKey == TweetCacheKey(rawTranscript)
       IN  /\ tweetGenerationCache' = cleaned
           /\ seg' = [seg EXCEPT ![p] =
                  IF IsBlank(rawTranscript)
                  THEN SegReturn(s0, <<Str(" ", 0)>>)
                  ELSE IF cacheKey \in DOMAIN cleaned
                  THEN SegReturn([s0 EXCEPT !.cacheKey = cacheKey, !.cacheHit = TRUE],
                                 cleaned[cacheKey].value)
                  ELSE SegLoop([s0 EXCEPT !.cacheKey = cacheKey])]
    /\ UNCHANGED <<twitterVars, now, transcribeVars, clientVars, homeVars>>

\* The chat completion resolves with a message content.
CompletionResolved(p, completion) ==
    /\ seg[p].pc = "awaitCompletion"
    /\ LET s == [seg[p] EXCEPT !.outcomes = Append(@, completion.kind),
                                !.received = <<completion>>]
       IN  IF completion.kind = "unparsable"
           THEN /\ seg' = [seg EXCEPT ![p] =
                       OnCompletionError(s, [status |-> 0, retryAfterMs |-> <<>>], "syntax")]
                /\ UNCHANGED tweetGenerationCache
           ELSE /\ tweetGenerationCache' =
                       CacheSet(tweetGenerationCache, s.cacheKey, TweetThreadOf(s, completion), now)
                /\ seg' = [seg EXCEPT ![p] = SegReturn(s, TweetThreadOf(s, completion))]
    /\ UNCHANGED <<twitterVars, now, transcribeVars, clientVars, homeVars>>

\* The chat completion rejects.
CompletionRejected(p, err) ==
    /\ seg[p].pc = "awaitCompletion"
    /\ LET s == [seg[p] EXCEPT !.outcomes = Append(@, IF err.status = 429 THEN "rateLimit" ELSE "error"),
                                !.suggested = Append(@, err.retryAfterMs)]
       IN  seg' = [seg EXCEPT ![p] = OnCompletionError(s, err, "upstream")]
    /\ UNCHANGED <<twitterVars, now, tweetGenerationCache, transcribeVars, clientVars, homeVars>>

\* The setTimeout of line 201 fires and the loop goes round.
RetryTimerFired(p) ==
    /\ seg[p].pc = "waiting"
    /\ seg' = [seg EXCEPT ![p] = SegLoop(seg[p])]
    /\ UNCHANGED <<twitterVars, now, tweetGenerationCache, transcribeVars, clientVars, homeVars>>

(***************************************************************************)
(* The OpenAI adapter: transcribeAudio                                      *)
(***************************************************************************)
\* Concatenation of two run-length encoded strings
Cat(s, t) ==
    IF s = <<>> THEN t
    ELSE IF t = <<>> THEN s
    ELSE IF s[Len(s)].ch = Head(t).ch
    THEN DropLast(s) \o <<Run(Head(t).ch, s[Len(s)].n + Head(t).n)>> \o Tail(t)
    ELSE s \o t

RECURSIVE Repeat(_, _)
Repeat(s, k) == IF k = 0 THEN <<>> ELSE Cat(s, Repeat(s, k - 1))

\* buffer.slice(0, k)
RECURSIVE Take(_, _)
Take(buffer, k) ==
    IF k <= 0 \/ buffer = <<>> THEN <<>>
    ELSE IF Head(buffer).n <= k
    THEN <<Head(buffer)>> \o Take(Tail(buffer), k - Head(buffer).n)
    ELSE <<Run(Head(buffer).ch, k)>>

\* buffer.slice(k, buffer.length)
RECURSIVE Drop(_, _)
Drop(buffer, k) ==
    IF k <= 0 \/ buffer = <<>> THEN buffer
    ELSE IF Head(buffer).n <= k THEN Drop(Tail(buffer), k - Head(buffer).n)
    ELSE <<Run(Head(buffer).ch, Head(buffer).n - k)>> \o Tail(buffer)

Max(a, b) == IF a > b THEN a ELSE b

HexDigits == <<"0", "1", "2", "3", "4", "5", "6", "7", "8", "9", "a", "b", "c", "d", "e", "f">>

HexByte(b) == Cat(Str(HexDigits[(b \div 16) + 1], 1), Str(HexDigits[(b % 16) + 1], 1))

\* buffer.toString('hex')
RECURSIVE ToHex(_)
ToHex(buffer) ==
    IF buffer = <<>> THEN <<>>
    ELSE Cat(Repeat(HexByte(Head(buffer).ch), Head(buffer).n), ToHex(Tail(buffer)))

\* `${n}` for a non-negative integer
RECURSIVE Decimal(_)
Decimal(k) ==
    IF k < 10 THEN Str(HexDigits[k + 1], 1)
    ELSE Cat(Decimal(k \div 10), Str(HexDigits[(k % 10) + 1], 1))

\* A key whose start runs one byte further
getBufferCacheKeyLonger(buffer) ==
    LET length == StrLen(buffer)
        start == ToHex(Take(buffer, Min(21, length)))
        end == ToHex(Drop(buffer, Max(0, length - 20)))
    IN  Cat(Cat(Cat(Cat(Decimal(length), Str("-", 1)), start), Str("-", 1)), end)

\* getBufferCacheKey: `${buffer.length}-${start}-${end}` with start and end the
\* hex of the first and of the last 20 bytes
getBufferCacheKey(buffer) ==
    LET length == StrLen(buffer)
        start == ToHex(Take(buffer, Min(20, length)))
        end == ToHex(Drop(buffer, Max(0, length - 20)))
    IN  Cat(Cat(Cat(Cat(Decimal(length), Str("-", 1)), start), Str("-", 1)), end)

\* The audio submitted: fifty equal bytes; fifty bytes that differ from them
\* only in the middle ten; eight bytes.
AudioBuffers ==
    {Str(17, 50),
     <<Run(17, 20), Run(34, 10), Run(17, 20)>>,
     Str(51, 8)}

AudioFormats == {"webm", "wav"}

\* What a completed transcription carries: a text for the audio it was sent
\* (the service may word the same audio differently from call to call) and,
\* in some versions of the API, a duration: the field is absent, null or a number.
WhisperTakes == {1, 2}

WhisperDurations ==
    {[field |-> "absent", value |-> 0], [field |-> "null", value |-> 0],
     [field |-> "number", value |-> 0], [field |-> "number", value |-> 7]}

\* The message of a rejected transcription request
WhisperErrors == {"Connection error", "Invalid file format"}

IdleTr ==
    [pc |-> "idle", audioBuffer |-> <<>>, format |-> "", cacheKey |-> <<>>,
     tempFile |-> <<>>, calls |-> 0, sent |-> <<>>, cacheHit |-> FALSE,
     result |-> <<>>, received |-> <<>>, rejected |-> <<>>, error |-> <<>>]

\* path.join(os.tmpdir(), `audio-${Date.now()}.${format}`)
TempFile(t, format) == <<t, format>>

\* return value
TrReturn(f, value) == [f EXCEPT !.pc = "returned", !.result = <<value>>]

\* A catch that drops the message of what it caught
TrThrowUnknown(f, message) ==
    [f EXCEPT !.pc = "thrown", !.error = <<"Transcription failed: ", "Unknown error">>]

\* The catch of line 108: throw new Error(`Transcription failed: ${message}`)
TrThrow(f, message) ==
    [f EXCEPT !.pc = "thrown", !.error = <<"Transcription failed: ", message>>]

\* A reading that takes the field as given and has no number without it
DurationOfRequired(duration) ==
    IF duration.field = "number" THEN duration.value ELSE -1

\* 'duration' in transcription ? transcription.duration || 0 : 0
DurationOf(duration) ==
    IF duration.field # "absent"
    THEN (IF duration.field = "number" /\ duration.value # 0 THEN duration.value ELSE 0)
    ELSE 0

\* fs.unlinkSync / fs.writeFileSync on the temporary directory
Unlink(fs, path) == [q \in DOMAIN fs \ {path} |-> fs[q]]

WriteFile(fs, path, content) ==
    [q \in DOMAIN fs \cup {path} |-> IF q = path THEN content ELSE fs[q]]

\* transcribeAudio(audioBuffer, format) up to its await
TranscribeAudio(p, audioBuffer, format) ==
    /\ tr[p].pc = "idle"
    /\ LET cleaned == cleanExpiredCache(transcriptionCache, now)
           cacheKey == getBufferCacheKey(audioBuffer)
           f0 == [IdleTr EXCEPT !.audioBuffer = audioBuffer, !.format = format,
                                !.cacheKey = cacheKey]
           tempFile == TempFile(now, format)
       IN  /\ transcriptionCache' = cleaned
           /\ IF cacheKey \in DOMAIN cleaned
              THEN /\ tr' = [tr EXCEPT ![p] =
                          [TrReturn(f0, cleaned[cacheKey].value) EXCEPT !.cacheHit = TRUE]]
                   /\ UNCHANGED files
              ELSE /\ files' = WriteFile(files, tempFile, audioBuffer)
                   /\ tr' = [tr EXCEPT ![p] =
                          [f0 EXCEPT !.pc = "upload", !.tempFile = tempFile, !.calls = 1]]
    /\ UNCHANGED <<twitterVars, now, segmentVars, clientVars, homeVars>>

\* The request reads the stream opened on tempFile; a missing file fails the
\* request.
WhisperReads(p) ==
    /\ tr[p].pc = "upload"
    /\ tr' = [tr EXCEPT ![p] =
           IF tr[p].tempFile \in DOMAIN files
           THEN [tr[p] EXCEPT !.pc = "awaitTranscription", !.sent = files[tr[p].tempFile]]
           ELSE TrThrow(tr[p], "ENOENT")]
    /\ UNCHANGED <<twitterVars, now, segmentVars, transcriptionCache, files, clientVars, homeVars>>

\* The transcription resolves: lines 84-107
WhisperResolved(p, take, duration) ==
    /\ tr[p].pc = "awaitTranscription"
    /\ LET f == [tr[p] EXCEPT !.received = <<[take |-> take, duration |-> duration]>>]
           result == [text |-> [heard |-> f.sent, take |-> take],
                      duration |-> DurationOf(duration)]
       IN  IF f.tempFile \in DOMAIN files
           THEN /\ files' = Unlink(files, f.tempFile)
                /\ transcriptionCache' = CacheSet(transcriptionCache, f.cacheKey, result, now)
                /\ tr' = [tr EXCEPT ![p] = TrReturn(f, result)]
           ELSE /\ tr' = [tr EXCEPT ![p] = TrThrow(f, "ENOENT")]
                /\ UNCHANGED <<files, transcriptionCache>>
    /\ UNCHANGED <<twitterVars, now, segmentVars, clientVars, homeVars>>

\* The transcription rejects: the catch of line 108
WhisperRejected(p, message) ==
    /\ tr[p].pc \in {"upload", "awaitTranscription"}
    /\ tr' = [tr EXCEPT ![p] = TrThrow([tr[p] EXCEPT !.rejected = <<message>>], message)]
    /\ UNCHANGED <<twitterVars, now, segmentVars, transcriptionCache, files, clientVars, homeVars>>

NextTranscribe ==
    \/ \E p \in Submissions, audioBuffer \in AudioBuffers, format \in AudioFormats :
           TranscribeAudio(p, audioBuffer, format)
    \/ \E p \in Submissions : WhisperReads(p)
    \/ \E p \in Submissions, take \in WhisperTakes, duration \in WhisperDurations :
           WhisperResolved(p, take, duration)
    \/ \E p \in Submissions, message \in WhisperErrors : WhisperRejected(p, message)
    \/ Tick

InitOpenAI ==
    /\ now = 0
    /\ tweetGenerationCache = EmptyCache
    /\ seg = [p \in Submissions |-> IdleSeg]
    /\ transcriptionCache = EmptyCache
    /\ files = EmptyCache
    /\ tr = [p \in Submissions |-> IdleTr]

NextSegment ==
    \/ \E p \in Submissions, rawTranscript \in Transcripts : ProcessTranscription(p, rawTranscript)
    \/ \E p \in Submissions, completion \in Completions : CompletionResolved(p, completion)
    \/ \E p \in Submissions, err \in CompletionErrors : CompletionRejected(p, err)
    \/ \E p \in Submissions : RetryTimerFired(p)
    \/ Tick

(***************************************************************************)
(* The browser: ResultsSection, ProcessingSection and lib/twitter.ts       *)
(***************************************************************************)
Clicks == {1, 2}

\* What the text area of the results screen holds when a button is clicked
TweetInputs == {Str(" ", 2), Str("a", 1), Str("a", TWEET_LIMIT + 1)}

\* The additional options shown on the results screen
LocalTweets == {<<>>, <<Str("b", 3)>>}

\* How apiRequest ends: a 2xx answer with status "ok" in its body, a 2xx
\* answer with another status, an answer that is not ok, an exception.
Responses == {"ok", "okError", "notOk", "threw"}

IdleHandler == [pc |-> "idle", kind |-> "", outcome |-> ""]

Request(c, route) == [by |-> c, route |-> route, response |-> "pending"]

\* The last request of handler c receives its response.
Respond(c, response) ==
    LET j == CHOOSE k \in 1 .. Len(requests) :
                 requests[k].by = c /\ requests[k].response = "pending"
    IN  [requests EXCEPT ![j].response = response]

\* A check that takes a request that threw for a valid answer
checkTwitterCredentialsLenient(response) == [isValid |-> response \in {"ok", "threw"}]

\* lib/twitter.ts checkTwitterCredentials: !response.ok and the catch give
\* isValid false, a 2xx answer gives result.status === 'ok'
checkTwitterCredentials(response) == [isValid |-> response = "ok"]

\* lib/twitter.ts verifyTwitterCredentials: the same three ways
verifyTwitterCredentials(response) == [isValid |-> response = "ok"]

\* The end of a handler that went past setIsPosting(true): onError or
\* onPostSuccess change the view of Home, finally sets the flag back.
EndPosting(c, outcome) ==
    /\ handlers' = [handlers EXCEPT ![c].pc = "done", ![c].outcome = outcome]
    /\ component' = [component EXCEPT !.isPosting = FALSE,
                                      !.view = IF @ = "results" THEN outcome ELSE @]

\* handlePostTweet up to its first await; the button is the one of the last
\* committed render.
HandlePostTweet(c) ==
    /\ component.view = "results"
    /\ ~dom.isPosting
    /\ handlers[c].pc = "idle"
    /\ IF IsBlank(component.tweetText) \/ StrLen(component.tweetText) > TWEET_LIMIT
       THEN /\ handlers' = [handlers EXCEPT ![c] =
                   [pc |-> "done", kind |-> "single", outcome |-> "toast"]]
            /\ UNCHANGED <<component, requests>>
       ELSE /\ handlers' = [handlers EXCEPT ![c] =
                   [pc |-> "awaitCheck", kind |-> "single", outcome |-> ""]]
            /\ component' = [component EXCEPT !.isPosting = TRUE]
            /\ requests' = Append(requests, Request(c, "check-twitter-credentials"))
    /\ UNCHANGED <<dom, twitterVars, now, segmentVars, transcribeVars, homeVars>>

\* handlePostTweetThread up to its first await
HandlePostTweetThread(c) ==
    /\ component.view = "results"
    /\ ~dom.isPosting
    /\ Len(dom.localTweets) # 0
    /\ handlers[c].pc = "idle"
    /\ IF Len(component.localTweets) = 0
       THEN /\ handlers' = [handlers EXCEPT ![c] =
                   [pc |-> "done", kind |-> "thread", outcome |-> "toast"]]
            /\ UNCHANGED <<component, requests>>
       ELSE /\ handlers' = [handlers EXCEPT ![c] =
                   [pc |-> "awaitCheck", kind |-> "thread", outcome |-> ""]]
            /\ component' = [component EXCEPT !.isPosting = TRUE]
            /\ requests' = Append(requests, Request(c, "check-twitter-credentials"))
    /\ UNCHANGED <<dom, twitterVars, now, segmentVars, transcribeVars, homeVars>>

\* await checkTwitterCredentials() resumes the handler.
CheckResponded(c, response) ==
    /\ handlers[c].pc = "awaitCheck"
    /\ IF checkTwitterCredentials(response).isValid
       THEN /\ handlers' = [handlers EXCEPT ![c].pc = "awaitVerify"]
            /\ requests' = Append(Respond(c, response),
                                  Request(c, "verify-twitter-credentials"))
            /\ UNCHANGED component
       ELSE /\ requests' = Respond(c, response)
            /\ EndPosting(c, "error")
    /\ UNCHANGED <<dom, twitterVars, now, segmentVars, transcribeVars, homeVars>>

\* await verifyTwitterCredentials() resumes the handler, which calls
\* postTweet or postTweetThread of lib/twitter.ts; either verifies again.
VerifyResponded(c, response) ==
    /\ handlers[c].pc = "awaitVerify"
    /\ IF verifyTwitterCredentials(response).isValid
       THEN /\ handlers' = [handlers EXCEPT ![c].pc = "awaitLibVerify"]
            /\ requests' = Append(Respond(c, response),
                                  Request(c, "verify-twitter-credentials"))
            /\ UNCHANGED component
       ELSE /\ requests' = Respond(c, response)
            /\ EndPosting(c, "error")
    /\ UNCHANGED <<dom, twitterVars, now, segmentVars, transcribeVars, homeVars>>

\* lib/twitter.ts postTweet and postTweetThread after their own verification
LibVerifyResponded(c, response) ==
    /\ handlers[c].pc = "awaitLibVerify"
    /\ IF verifyTwitterCredentials(response).isValid
       THEN /\ handlers' = [handlers EXCEPT ![c].pc = "awaitPost"]
            /\ requests' = Append(Respond(c, response), Request(c, "post-tweet"))
            /\ UNCHANGED component
       ELSE /\ requests' = Respond(c, response)
            /\ EndPosting(c, "error")
    /\ UNCHANGED <<dom, twitterVars, now, segmentVars, transcribeVars, homeVars>>

\* The answer to POST /api/post-tweet: the library throws unless it is ok.
PostResponded(c, response) ==
    /\ handlers[c].pc = "awaitPost"
    /\ requests' = Respond(c, response)
    /\ EndPosting(c, IF response \in {"ok", "okError"} THEN "success" ELSE "error")
    /\ UNCHANGED <<dom, twitterVars, now, segmentVars, transcribeVars, homeVars>>

\* handleContinueWithAdditionalText up to its setTimeout of 100 ms
HandleContinueWithAdditionalText(c) ==
    /\ component.view = "processing"
    /\ ~dom.isAddingText
    /\ handlers[c].pc = "idle"
    /\ handlers' = [handlers EXCEPT ![c] =
           [pc |-> "delay", kind |-> "continue", outcome |-> ""]]
    /\ component' = [component EXCEPT !.isAddingText = TRUE]
    /\ UNCHANGED <<dom, requests, twitterVars, now, segmentVars, transcribeVars, homeVars>>

\* The timer fires: processTranscriptionAndCreateTweet of lib/openai.ts
DelayElapsed(c) ==
    /\ handlers[c].pc = "delay"
    /\ handlers' = [handlers EXCEPT ![c].pc = "awaitTweets"]
    /\ requests' = Append(requests, Request(c, "process-and-create-tweet"))
    /\ UNCHANGED <<component, dom, twitterVars, now, segmentVars, transcribeVars, homeVars>>

\* The answer to POST /api/process-and-create-tweet: onProcessingComplete
\* shows the results, onError the error; finally sets the flag back.
TweetsResponded(c, response) ==
    /\ handlers[c].pc = "awaitTweets"
    /\ requests' = Respond(c, response)
    /\ LET outcome == IF response \in {"ok", "okError"} THEN "results" ELSE "error"
       IN  /\ handlers' = [handlers EXCEPT ![c].pc = "done", ![c].outcome = outcome]
           /\ component' = [component EXCEPT
                  !.isAddingText = FALSE,
                  !.view = IF @ = "processing" THEN outcome ELSE @]
    /\ UNCHANGED <<dom, twitterVars, now, segmentVars, transcribeVars, homeVars>>

\* React commits a render: the buttons take the flags of the state.
Render ==
    /\ dom # [isPosting |-> component.isPosting,
              isAddingText |-> component.isAddingText,
              localTweets |-> component.localTweets]
    /\ dom' = [isPosting |-> component.isPosting,
               isAddingText |-> component.isAddingText,
               localTweets |-> component.localTweets]
    /\ UNCHANGED <<component, handlers, requests,
                   twitterVars, now, segmentVars, transcribeVars, homeVars>>

InitClient ==
    /\ component = [view |-> "results", tweetText |-> <<>>, localTweets |-> <<>>,
                    isPosting |-> FALSE, isAddingText |-> FALSE]
    /\ dom = [isPosting |-> FALSE, isAddingText |-> FALSE, localTweets |-> <<>>]
    /\ handlers = [c \in Clicks |-> IdleHandler]
    /\ requests = <<>>

\* A results screen or a processing screen as Home mounts it
InitScreen ==
    /\ \E view \in {"results", "processing"}, tweetText \in TweetInputs,
          localTweets \in LocalTweets :
           /\ component = [view |-> view, tweetText |-> tweetText,
                           localTweets |-> localTweets,
                           isPosting |-> FALSE, isAddingText |-> FALSE]
           /\ dom = [isPosting |-> FALSE, isAddingText |-> FALSE,
                     localTweets |-> localTweets]
    /\ handlers = [c \in Clicks |-> IdleHandler]
    /\ requests = <<>>

NextClient ==
    \/ \E c \in Clicks : HandlePostTweet(c)
    \/ \E c \in Clicks : HandlePostTweetThread(c)
    \/ \E c \in Clicks, response \in Responses : CheckResponded(c, response)
    \/ \E c \in Clicks, response \in Responses : VerifyResponded(c, response)
    \/ \E c \in Clicks, response \in Responses : LibVerifyResponded(c, response)
    \/ \E c \in Clicks, response \in Responses : PostResponded(c, response)
    \/ \E c \in Clicks : HandleContinueWithAdditionalText(c)
    \/ \E c \in Clicks : DelayElapsed(c)
    \/ \E c \in Clicks, response \in Responses : TweetsResponded(c, response)
    \/ Render

(***************************************************************************)
(* The browser: pages/Home and components/ProcessingSection                *)
(***************************************************************************)
MaxRecordings == 2    \* recordings handed to handleRecordingComplete

MaxRuns == 2          \* invocations of processAudio by one ProcessingSection

\* The recordings and uploads: what the page reads of a Blob
Blobs == {[size |-> 1, type |-> "audio/webm"], [size |-> 2, type |-> "audio/webm"]}

\* `${blob.size}-${blob.type}`
BlobId(blob) == <<blob.size, blob.type>>

\* Home after its first render, with the module flag and the ref.  recordings
\* counts the calls of handleRecordingComplete; cancelled holds from a click
\* on Cancel to the next recording that Home takes.
InitialHome ==
    [viewState |-> "recording", transcript |-> "", tweetText |-> "",
     additionalTweets |-> <<>>, errorMessage |-> "", processingProgress |-> 0,
     audioBlob |-> <<>>, isCurrentlyProcessing |-> FALSE,
     lastProcessedBlobId |-> <<>>, recordings |-> 0, cancelled |-> FALSE]

\* The React state of Home: a change of it renders Home again
StateOf(h) ==
    <<h.viewState, h.transcript, h.tweetText, h.additionalTweets, h.errorMessage,
      h.processingProgress, h.audioBlob>>

handleRecordingComplete(h, blob) ==
    LET called == [h EXCEPT !.recordings = h.recordings + 1]
    IN  IF h.isCurrentlyProcessing
        THEN called
        ELSE IF <<BlobId(blob)>> = h.lastProcessedBlobId
        THEN called
        ELSE [called EXCEPT !.isCurrentlyProcessing = TRUE,
                            !.lastProcessedBlobId = <<BlobId(blob)>>,
                            !.audioBlob = <<blob>>,
                            !.viewState = "processing",
                            !.processingProgress = 0]

\* tweets[0] || ""
FirstOr(tweets) == IF tweets = <<>> THEN "" ELSE tweets[1]

handleProcessingComplete(h, text, tweets) ==
    [h EXCEPT !.isCurrentlyProcessing = FALSE,
              !.transcript = text,
              !.tweetText = FirstOr(tweets),
              !.additionalTweets = IF tweets = <<>> THEN <<>> ELSE Tail(tweets),
              !.viewState = "results"]

handlePostSuccess(h) == [h EXCEPT !.viewState = "success"]

handleError(h, message) ==
    [h EXCEPT !.isCurrentlyProcessing = FALSE,
              !.errorMessage = message,
              !.viewState = "error"]

resetToRecording(h) ==
    [h EXCEPT !.isCurrentlyProcessing = FALSE,
              !.viewState = "recording",
              !.transcript = "",
              !.tweetText = "",
              !.additionalTweets = <<>>,
              !.errorMessage = "",
              !.processingProgress = 0,
              !.audioBlob = <<>>]

\* setProgress is the setProcessingProgress of Home
setProgress(h, progress) == [h EXCEPT !.processingProgress = progress]

\* A ProcessingSection at its mount: its state, its refs, the invocations of
\* processAudio and the invocation of handleContinueWithAdditionalText.
\* effectPending: Home has rendered since the effect of line 48 last ran, so
\* that onProcessingComplete and onError are new functions.
NewSection(blob) ==
    [audioBlob |-> blob, unmountedRef |-> FALSE, processingRef |-> FALSE,
     isProcessing |-> FALSE, isAddingText |-> FALSE,
     showAdditionalInput |-> FALSE, transcriptText |-> "",
     effectPending |-> TRUE, runs |-> <<>>, continue |-> "idle"]

Mounted(s) == s \in DOMAIN sections /\ ~sections[s].unmountedRef

\* What React does with the ProcessingSection when Home goes from h to h2:
\* it unmounts it (the cleanup of line 43 sets unmountedRef), mounts a new
\* one, or renders it with new callbacks.
Commit(h, h2, secs) ==
    LET last == Len(secs)
    IN  IF StateOf(h) = StateOf(h2)
        THEN secs
        ELSE IF h.viewState = "processing" /\ h2.viewState # "processing"
        THEN [secs EXCEPT ![last].unmountedRef = TRUE]
        ELSE IF h.viewState # "processing" /\ h2.viewState = "processing"
        THEN Append(secs, NewSection(h2.audioBlob[1]))
        ELSE IF h.viewState = "processing"
        THEN [secs EXCEPT ![last].effectPending = TRUE]
        ELSE secs

\* RecordingSection hands a recording or an upload to onRecordingComplete.
RecordingCompleted(blob) ==
    /\ home.viewState = "recording"
    /\ home.recordings < MaxRecordings
    /\ LET h2 == handleRecordingComplete(home, blob)
       IN  home' = [h2 EXCEPT !.cancelled = h2.viewState = "recording" /\ home.cancelled]
    /\ sections' = Commit(home, home', sections)
    /\ UNCHANGED <<processedAudioBlobs, twitterVars, now, segmentVars, transcribeVars, clientVars>>

\* The finally of processAudio, lines 142-151
Finally(sec, r) ==
    [sec EXCEPT !.isProcessing = IF sec.unmountedRef THEN sec.isProcessing ELSE FALSE,
                !.processingRef = FALSE,
                !.runs[r].pc = "done"]

\* processingRef.current || processedAudioBlobs.has(audioBlobId)
AlreadyProcessed(sec, audioBlobId) ==
    sec.processingRef \/ audioBlobId \in processedAudioBlobs

\* The effect of line 48, run after a render that changed its dependencies:
\* it returns at line 61, or starts processAudio, which runs to the await of
\* the FileReader.
ProcessingEffect(s) ==
    /\ Mounted(s)
    /\ sections[s].effectPending
    /\ LET sec == [sections[s] EXCEPT !.effectPending = FALSE]
           audioBlobId == <<sec.audioBlob.size, sec.audioBlob.type, now>>
       IN  IF AlreadyProcessed(sec, audioBlobId)
           THEN /\ sections' = [sections EXCEPT ![s] = sec]
                /\ UNCHANGED <<home, processedAudioBlobs>>
           ELSE /\ Len(sec.runs) < MaxRuns
                /\ processedAudioBlobs' = processedAudioBlobs \cup {audioBlobId}
                /\ home' = setProgress(home, 10)
                /\ sections' =
                       Commit(home, home',
                              [sections EXCEPT ![s] =
                                  [sec EXCEPT !.isProcessing = TRUE,
                                              !.processingRef = TRUE,
                                              !.runs = Append(sec.runs,
                                                              [pc |-> "awaitRead",
                                                               sent |-> FALSE])]])
    /\ UNCHANGED <<twitterVars, now, segmentVars, transcribeVars, clientVars>>

\* The FileReader ends.  Loaded: line 100 returns when the component has
\* unmounted, else the transcription request is sent.  Failed: the catch
\* calls onError unless the component has unmounted.
ReaderEnded(s, r, loaded) ==
    /\ s \in DOMAIN sections
    /\ r \in DOMAIN sections[s].runs
    /\ sections[s].runs[r].pc = "awaitRead"
    /\ LET sec == sections[s]
       IN  IF sec.unmountedRef
           THEN /\ sections' = [sections EXCEPT ![s] = Finally(sec, r)]
                /\ UNCHANGED home
           ELSE IF loaded
           THEN /\ home' = setProgress(home, 30)
                /\ sections' =
                       Commit(home, home',
                              [sections EXCEPT ![s].runs[r] =
                                  [pc |-> "awaitTranscribe", sent |-> TRUE]])
           ELSE /\ home' = handleError(home, "Failed to read audio file.")
                /\ sections' =
                       Commit(home, home', [sections EXCEPT ![s] = Finally(sec, r)])
    /\ UNCHANGED <<processedAudioBlobs, twitterVars, now, segmentVars, transcribeVars, clientVars>>

\* What transcribeAudio of lib/openai gives: a transcript, an empty one, an error
TranscribeOutcomes == {"transcript", "empty", "threw"}

\* The transcription request is answered, lines 111-151.
TranscriptionResponded(s, r, outcome) ==
    /\ s \in DOMAIN sections
    /\ r \in DOMAIN sections[s].runs
    /\ sections[s].runs[r].pc = "awaitTranscribe"
    /\ LET sec == sections[s]
       IN  IF sec.unmountedRef
           THEN /\ sections' = [sections EXCEPT ![s] = Finally(sec, r)]
                /\ UNCHANGED home
           ELSE IF outcome = "transcript"
           THEN /\ home' = setProgress(home, 100)
                /\ sections' =
                       Commit(home, home',
                              [sections EXCEPT ![s] =
                                  Finally([sec EXCEPT !.transcriptText = "words",
                                                      !.showAdditionalInput = TRUE], r)])
           ELSE /\ home' = handleError(home,
                                       IF outcome = "empty"
                                       THEN "Could not transcribe the audio."
                                       ELSE "Failed to transcribe audio")
                /\ sections' =
                       Commit(home, home', [sections EXCEPT ![s] = Finally(sec, r)])
    /\ UNCHANGED <<processedAudioBlobs, twitterVars, now, segmentVars, transcribeVars, clientVars>>

\* A click on Continue: handleContinueWithAdditionalText up to the await of
\* the 100 ms delay.  One click for each mounted component.
ContinueClicked(s) ==
    /\ Mounted(s)
    /\ sections[s].showAdditionalInput
    /\ sections[s].continue = "idle"
    /\ sections' = [sections EXCEPT ![s].isAddingText = TRUE,
                                    ![s].continue = "awaitDelay"]
    /\ UNCHANGED <<home, processedAudioBlobs, twitterVars, now, segmentVars,
                   transcribeVars, clientVars>>

\* The delay has passed: the segmentation request is sent (line 176).
ContinueDelayElapsed(s) ==
    /\ s \in DOMAIN sections
    /\ sections[s].continue = "awaitDelay"
    /\ sections' = [sections EXCEPT ![s].continue = "awaitTweets"]
    /\ UNCHANGED <<home, processedAudioBlobs, twitterVars, now, segmentVars,
                   transcribeVars, clientVars>>

\* What processTranscriptionAndCreateTweet of lib/openai gives
SegmentOutcomes == {"tweets", "threw"}

\* The segmentation request is answered, lines 176-186: onProcessingComplete
\* or onError, whatever became of the component.
ContinueResponded(s, outcome) ==
    /\ s \in DOMAIN sections
    /\ sections[s].continue = "awaitTweets"
    /\ home' = IF outcome = "tweets"
               THEN handleProcessingComplete(home, sections[s].transcriptText,
                                             <<"tweet one", "tweet two">>)
               ELSE handleError(home, "Failed to process transcription")
    /\ sections' = Commit(home, home',
                          [sections EXCEPT ![s].isAddingText = FALSE,
                                           ![s].continue = "done"])
    /\ UNCHANGED <<processedAudioBlobs, twitterVars, now, segmentVars, transcribeVars, clientVars>>

\* A click on Cancel, on either face of the processing screen: onCancel is
\* resetToRecording.
Cancel(s) ==
    /\ Mounted(s)
    /\ home' = [resetToRecording(home) EXCEPT !.cancelled = TRUE]
    /\ sections' = Commit(home, home', sections)
    /\ UNCHANGED <<processedAudioBlobs, twitterVars, now, segmentVars, transcribeVars, clientVars>>

\* The results screen ends: onPostSuccess or onError.
ResultsEnded(posted) ==
    /\ home.viewState = "results"
    /\ home' = IF posted THEN handlePostSuccess(home)
                         ELSE handleError(home, "Failed to post tweet")
    /\ sections' = Commit(home, home', sections)
    /\ UNCHANGED <<processedAudioBlobs, twitterVars, now, segmentVars, transcribeVars, clientVars>>

\* onNewTweet of the success screen, onTryAgain of the error screen
StartOver ==
    /\ home.viewState \in {"success", "error"}
    /\ home' = resetToRecording(home)
    /\ sections' = Commit(home, home', sections)
    /\ UNCHANGED <<processedAudioBlobs, twitterVars, now, segmentVars, transcribeVars, clientVars>>

InitHome ==
    /\ home = InitialHome
    /\ sections = <<>>
    /\ processedAudioBlobs = {}

NextHome ==
    \/ \E blob \in Blobs : RecordingCompleted(blob)
    \/ \E s \in 1 .. MaxRecordings : ProcessingEffect(s)
    \/ \E s \in 1 .. MaxRecordings, r \in 1 .. MaxRuns, loaded \in BOOLEAN :
           ReaderEnded(s, r, loaded)
    \/ \E s \in 1 .. MaxRecordings, r \in 1 .. MaxRuns, outcome \in TranscribeOutcomes :
           TranscriptionResponded(s, r, outcome)
    \/ \E s \in 1 .. MaxRecordings : ContinueClicked(s)
    \/ \E s \in 1 .. MaxRecordings : ContinueDelayElapsed(s)
    \/ \E s \in 1 .. MaxRecordings, outcome \in SegmentOutcomes :
           ContinueResponded(s, outcome)
    \/ \E s \in 1 .. MaxRecordings : Cancel(s)
    \/ \E posted \in BOOLEAN : ResultsEnded(posted)
    \/ StartOver
    \/ Tick

(***************************************************************************)
(* Specifications                                                          *)
(***************************************************************************)
Init ==
    /\ env \in [Credentials -> EnvValues]
    /\ InitTwitter
    /\ InitOpenAI
    /\ InitClient
    /\ InitHome

Next ==
    \/ NextThread \/ NextPost \/ NextRoute \/ NextVerify
    \/ NextSegment \/ NextTranscribe \/ NextClient \/ NextHome

\* The whole server
Spec == Init /\ [][Next]_vars

\* One postTweetThread invocation under every configuration of credentials
SpecThread == Init /\ [][NextThread]_vars

\* One postTweet invocation under every configuration of credentials
SpecPost == Init /\ [][NextPost]_vars

\* One request to the thread branch of POST /api/post-tweet
SpecRoute == Init /\ [][NextRoute]_vars

\* verifyTwitterCredentials alone
SpecVerify == Init /\ [][NextVerify]_vars

\* The submissions to processTranscriptionAndCreateTweet
\* The OpenAI side does not read the Twitter credentials.
InitSegment ==
    /\ env = [name \in Credentials |-> "k3y"]
    /\ InitTwitter
    /\ InitOpenAI
    /\ InitClient
    /\ InitHome

\* The browser on one screen; the server answers are inputs
InitBrowser ==
    /\ env = [name \in Credentials |-> "k3y"]
    /\ InitTwitter
    /\ InitOpenAI
    /\ InitScreen
    /\ InitHome

SpecClient == InitBrowser /\ [][NextClient]_vars

\* The Home page at its first render
InitPage ==
    /\ env = [name \in Credentials |-> "k3y"]
    /\ InitTwitter
    /\ InitOpenAI
    /\ InitClient
    /\ InitHome

\* The Home page with every ProcessingSection it mounts
SpecHome == InitPage /\ [][NextHome]_vars

SpecSegment == InitSegment /\ [][NextSegment]_vars

\* The submissions to transcribeAudio
SpecTranscribe == InitSegment /\ [][NextTranscribe]_vars

\* A text that reads as the cache key of an audio buffer, bare and padded,
\* and the buffer it reads as the key of
KeyLikeTranscripts ==
    {getBufferCacheKey(Str(51, 8)),
     Cat(Str(" ", 1), getBufferCacheKey(Str(51, 8)))}

\* One transcribeAudio call and one processTranscriptionAndCreateTweet call
\* in the same process, on an audio and on a text that spells its cache key
NextCaches ==
    \/ \E rawTranscript \in KeyLikeTranscripts : ProcessTranscription(1, rawTranscript)
    \/ \E completion \in Completions : CompletionResolved(1, completion)
    \/ \E err \in CompletionErrors : CompletionRejected(1, err)
    \/ RetryTimerFired(1)
    \/ \E format \in AudioFormats : TranscribeAudio(1, Str(51, 8), format)
    \/ WhisperReads(1)
    \/ \E take \in WhisperTakes, duration \in WhisperDurations :
           WhisperResolved(1, take, duration)
    \/ \E message \in WhisperErrors : WhisperRejected(1, message)
    \/ Tick

SpecCaches == InitSegment /\ [][NextCaches]_vars

(***************************************************************************)
(* Properties of postTweetThread                                           *)
(***************************************************************************)
CallIndices == 1 .. Len(twitterCalls)

OkCalls == {j \in CallIndices : twitterCalls[j].status = "ok"}

FailedCalls == {j \in CallIndices : twitterCalls[j].status = "failed"}

InvalidTweet(text) == IsBlank(text) \/ StrLen(text) > TWEET_LIMIT

\* C1: once the publish call for posts[k] has failed, exactly k+1 publish
\* calls have been made (the failed one is the last, every earlier one
\* succeeded), every call on the platform is a publish call (nothing is
\* deleted or compensated), the k identifiers already obtained are kept, and
\* the invocation has ended by raising an error.
C1_StopAtFirstFailure ==
    \A j \in FailedCalls :
        /\ j = Len(twitterCalls)
        /\ \A h \in 1 .. (j - 1) : twitterCalls[h].status = "ok"
        /\ \A h \in CallIndices : twitterCalls[h].op = "tweet"
        /\ thread.i = j - 1
        /\ Len(thread.tweetIds) = j - 1
        /\ thread.pc = "thrown"
        /\ thread.result = <<>>

\* A thread of three whose second publish call failed.
C1_Witness ==
    /\ Len(thread.tweets) = 3
    /\ FailedCalls = {2}
    /\ thread.pc = "thrown"

\* C2: the first publish call carries no reply reference and every later one
\* carries exactly the identifier returned by the call before it.
C2_ReplyLinkage ==
    \A j \in CallIndices :
        twitterCalls[j].reply =
            IF j = 1 THEN <<>> ELSE <<twitterCalls[j - 1].id>>

\* C3: an empty thread, a missing credential or an invalid post at any index
\* makes the invocation raise with no publish call made.
C3_ValidationBeforeAnyCall ==
    (/\ thread.pc # "idle"
     /\ \/ Len(thread.tweets) = 0
        \/ MissingCredentials(env) # <<>>
        \/ \E k \in 1 .. Len(thread.tweets) : InvalidTweet(thread.tweets[k]))
    => (thread.pc = "thrown" /\ Len(twitterCalls) = 0)

\* C4: an error raised for post k (0-based) names tweet number k+1 and the
\* reason, and exactly k posts were published before it: k identifiers are
\* held and k publish calls succeeded.
C4_PartialFailureReport ==
    (thread.pc = "thrown" /\ thread.error.kind \in {"EmptyTweet", "TooLong", "PublishFailed"})
    => LET k == thread.error.tweetNo - 1
       IN  /\ k \in 0 .. (Len(thread.tweets) - 1)
           /\ Len(thread.tweetIds) = k
           /\ Cardinality(OkCalls) = k
           /\ thread.error.kind = "EmptyTweet" => IsBlank(thread.tweets[k + 1])
           /\ thread.error.kind = "TooLong" => StrLen(thread.tweets[k + 1]) > TWEET_LIMIT
           /\ thread.error.kind = "PublishFailed" =>
                  /\ FailedCalls = {k + 1}
                  /\ twitterCalls[k + 1].text = thread.tweets[k + 1]
                  /\ thread.error.detail =
                         IF twitterCalls[k + 1].message = "" THEN "Unknown error"
                         ELSE twitterCalls[k + 1].message

\* The third post of a thread is rejected with a message.
C4_Witness ==
    /\ thread.pc = "thrown"
    /\ thread.error.kind = "PublishFailed"
    /\ thread.error.tweetNo = 3
    /\ thread.error.detail = "Too Many Requests"

\* C5: the j-th publish call sends exactly the j-th post, so calls follow the
\* order of the sequence and no index is sent twice; a rejected call, a
\* rate-limited one included, is never followed by another call.
C5_FixedSequence ==
    /\ Len(twitterCalls) <= Len(thread.tweets)
    /\ \A j \in CallIndices :
           /\ twitterCalls[j].op = "tweet"
           /\ twitterCalls[j].text = thread.tweets[j]
           /\ twitterCalls[j].code = 429 => j = Len(twitterCalls) /\ thread.pc = "thrown"

\* Three different posts have been sent.
C5_Witness ==
    /\ Len(twitterCalls) = 3
    /\ thread.tweets[1] # thread.tweets[2]
    /\ thread.tweets[2] # thread.tweets[3]
    /\ thread.tweets[1] # thread.tweets[3]

\* C6: a returned invocation made one successful publish call per post; ids
\* holds the identifiers of those calls in order and threadId is ids[0].
C6_SuccessResult ==
    thread.pc = "returned"
    => /\ Len(thread.result) = 1
       /\ LET res == thread.result[1]
          IN  /\ Len(res.ids) = Len(thread.tweets)
              /\ Len(twitterCalls) = Len(thread.tweets)
              /\ \A j \in CallIndices :
                     twitterCalls[j].status = "ok" /\ res.ids[j] = twitterCalls[j].id
              /\ res.threadId = res.ids[1]

\* A thread of three returned with different first and last identifiers.
C6_Witness ==
    /\ thread.pc = "returned"
    /\ Len(thread.tweets) = 3
    /\ thread.result[1].ids[1] # thread.result[1].ids[3]

(***************************************************************************)
(* Properties of processTranscriptionAndCreateTweet                        *)
(***************************************************************************)
Returned(p) == seg[p].pc = "returned"

\* C8: two submissions of the same non-empty text inside one expiration
\* period cause at most one upstream generation call between them.
C8_SegmentationMemoization ==
    \A p, q \in Submissions :
        (/\ p # q
         /\ now < CACHE_EXPIRATION_MS
         /\ seg[p].pc # "idle" /\ seg[q].pc # "idle"
         /\ ~IsBlank(seg[p].rawTranscript)
         /\ seg[p].rawTranscript = seg[q].rawTranscript)
        => seg[p].calls + seg[q].calls <= 1

\* C9: every post of every returned sequence is at most 280 characters long.
C9_LengthBound ==
    \A p \in Submissions :
        Returned(p) =>
            \A j \in 1 .. Len(seg[p].result) : StrLen(seg[p].result[j]) <= TWEET_LIMIT

\* C10: when all the generation calls of a submission were rate-limited, it
\* made exactly three of them and the error that reached the enclosing handler
\* is the distinct retries-exhausted error, not the raw rate-limit error.
C10_RetryExhaustion ==
    \A p \in Submissions :
        (/\ Returned(p)
         /\ seg[p].outcomes # <<>>
         /\ \A j \in 1 .. Len(seg[p].outcomes) : seg[p].outcomes[j] = "rateLimit")
        => /\ seg[p].calls = 3
           /\ seg[p].caught.kind = "exhausted"
           /\ seg[p].caught.status # 429

(***************************************************************************)
(* Properties of transcribeAudio                                           *)
(***************************************************************************)
\* C7: two submissions of the same audio buffer inside one expiration period,
\* overlapping or not, invoke the upstream transcription at most once between
\* them, and when both have returned their results are identical.
C7_TranscriptionMemoization ==
    \A p, q \in Submissions :
        (/\ p # q
         /\ now < CACHE_EXPIRATION_MS
         /\ tr[p].pc # "idle" /\ tr[q].pc # "idle"
         /\ tr[p].audioBuffer = tr[q].audioBuffer)
        => /\ tr[p].calls + tr[q].calls <= 1
           /\ (tr[p].pc = "returned" /\ tr[q].pc = "returned") => tr[p].result = tr[q].result

\* C11: a submission whose first two generation calls were rate-limited and
\* whose third resolved with a list of posts made exactly 3 upstream calls and
\* exactly 2 waits, returns the list of the third call, and that list is in
\* the cache under its key when it returns.
C11_RetryThenSuccess ==
    [][\A p \in Submissions :
          (/\ seg[p].pc = "awaitCompletion"
           /\ seg[p].outcomes = <<"rateLimit", "rateLimit">>
           /\ Returned(p)'
           /\ seg'[p].received # <<>>
           /\ seg'[p].received[1].kind = "tweets")
          => /\ seg'[p].calls = 3
             /\ Len(seg'[p].waits) = 2
             /\ seg'[p].result = seg'[p].received[1].tweets
             /\ seg'[p].cacheKey \in DOMAIN tweetGenerationCache'
             /\ tweetGenerationCache'[seg'[p].cacheKey] =
                    [value |-> seg'[p].received[1].tweets, timestamp |-> now]]_vars

\* A submission returned two posts after two rate-limited calls.
C11_Witness ==
    \E p \in Submissions :
        /\ Returned(p)
        /\ seg[p].outcomes = <<"rateLimit", "rateLimit", "tweets">>
        /\ Len(seg[p].result) = 2

\* C12: a generation call that fails with anything but the rate-limit
\* condition (another status, no status, or a body that does not parse) is the
\* last upstream call of its submission, which ends at once: no wait follows
\* it, and when it is the first attempt exactly one call was made.
C12_OnlyRateLimitRetried ==
    \A p \in Submissions :
        \A j \in 1 .. Len(seg[p].outcomes) :
            seg[p].outcomes[j] \in {"error", "unparsable"}
            => /\ j = Len(seg[p].outcomes)
               /\ seg[p].calls = j
               /\ Len(seg[p].waits) = j - 1
               /\ Returned(p)

\* A first attempt answered with status 500, and one answered with a body
\* that does not parse.
C12_Witness ==
    \E p, q \in Submissions :
        /\ seg[p].outcomes = <<"error">> /\ seg[p].caught.status = 500
        /\ seg[q].outcomes = <<"unparsable">>

\* C13: the wait that follows the k-th failed attempt of a submission, when the
\* rejection carried a retry-after-ms header, is the smaller of that delay and
\* 2000 * 2^k milliseconds; with a suggested delay at or above the cap the
\* waits are 4000 then 8000.
C13_BackoffFormula ==
    \A p \in Submissions :
        \A k \in 1 .. Len(seg[p].waits) :
            seg[p].suggested[k] # <<>>
            => LET delay == seg[p].suggested[k][1]
                   cap == 2000 * 2 ^ k
               IN  /\ k \in {1, 2}
                   /\ seg[p].outcomes[k] = "rateLimit"
                   /\ seg[p].waits[k] = IF delay < cap THEN delay ELSE cap
                   /\ delay >= cap => seg[p].waits[k] = IF k = 1 THEN 4000 ELSE 8000

\* One submission waited 4000 then 8000, the other the suggested 3000 twice.
C13_Witness ==
    \E p, q \in Submissions :
        /\ seg[p].waits = <<4000, 8000>>
        /\ seg[q].waits = <<3000, 3000>>

\* C14: a call never raises, and a call on a non-blank text that missed the
\* cache and whose last generation call failed (rate-limited to exhaustion,
\* another status, no status, or a body that does not parse) returns the
\* one-element sequence holding the text exactly as submitted.
C14_FailOpen ==
    \A p \in Submissions :
        /\ seg[p].pc \in {"idle", "awaitCompletion", "waiting", "returned"}
        /\ (/\ Returned(p)
            /\ ~IsBlank(seg[p].rawTranscript)
            /\ ~seg[p].cacheHit
            /\ seg[p].outcomes # <<>>
            /\ seg[p].outcomes[Len(seg[p].outcomes)] \in {"rateLimit", "error", "unparsable"})
           => /\ seg[p].result = <<seg[p].rawTranscript>>
              /\ seg[p].caught.kind # "none"

\* A text with spaces around it came back verbatim after three rate-limited
\* calls, and another after a body that does not parse.
C14_Witness ==
    \E p, q \in Submissions :
        /\ Returned(p)
        /\ seg[p].rawTranscript # Trim(seg[p].rawTranscript)
        /\ seg[p].outcomes = <<"rateLimit", "rateLimit", "rateLimit">>
        /\ seg[p].result = <<seg[p].rawTranscript>>
        /\ Returned(q)
        /\ seg[q].outcomes = <<"unparsable">>

\* C15: while every answer the generation capability has given is a parseable
\* object without a tweets list, every call on a non-blank text T returns
\* exactly [T], also when T differs from a text submitted earlier only by
\* the spaces around it.
C15_MalformedFallback ==
    (/\ \E q \in Submissions : seg[q].received # <<>>
     /\ \A q \in Submissions :
            seg[q].received # <<>> => seg[q].received[1].kind = "noTweets")
    => \A p \in Submissions :
           (Returned(p) /\ ~IsBlank(seg[p].rawTranscript))
           => seg[p].result = <<seg[p].rawTranscript>>

\* C16: a call on an empty or blank text returns exactly [""] at once, makes no
\* upstream call and leaves the generated-posts cache as it was: nothing is
\* read from it, evicted from it or written to it.
C16_DegenerateInput ==
    [][\A p \in Submissions :
          (/\ seg[p].pc = "idle"
           /\ seg'[p].pc # "idle"
           /\ IsBlank(seg'[p].rawTranscript))
          => /\ Returned(p)'
             /\ seg'[p].result = <<Str(" ", 0)>>
             /\ seg'[p].calls = 0
             /\ ~seg'[p].cacheHit
             /\ tweetGenerationCache' = tweetGenerationCache]_vars

\* A blank text has returned and the cache holds an entry past its expiration.
C16_Witness ==
    \E p \in Submissions :
        /\ Returned(p)
        /\ seg[p].rawTranscript = Str(" ", 2)
        /\ \E k \in DOMAIN tweetGenerationCache :
               now - tweetGenerationCache[k].timestamp > CACHE_EXPIRATION_MS

\* C17: when a transcribeAudio call ends, by returning or by raising, the
\* temporary file that the call wrote no longer exists.
C17_TempFileRemoved ==
    [][\A p \in Submissions :
          (/\ tr[p].pc \notin {"returned", "thrown"}
           /\ tr'[p].pc \in {"returned", "thrown"}
           /\ tr'[p].tempFile # <<>>)
          => tr'[p].tempFile \notin DOMAIN files']_vars

\* C18: a lookup in either cache returns a stored entry only while
\* now - timestamp is below the five minutes of CACHE_EXPIRATION_MS; an entry
\* whose age equals or exceeds it is never returned.
C18_CacheTTL ==
    [][\A p \in Submissions :
          /\ (tr[p].pc = "idle" /\ tr'[p].cacheHit)
             => now - transcriptionCache[tr'[p].cacheKey].timestamp < CACHE_EXPIRATION_MS
          /\ (seg[p].pc = "idle" /\ seg'[p].cacheHit)
             => now - tweetGenerationCache[seg'[p].cacheKey].timestamp < CACHE_EXPIRATION_MS]_vars

\* The step at which submission p returns on a cache miss for a non-blank text
ReturnsOnMiss(p) ==
    /\ seg[p].pc # "returned"
    /\ seg'[p].pc = "returned"
    /\ ~seg'[p].cacheHit
    /\ ~IsBlank(seg'[p].rawTranscript)

\* What the call leaves in the cache when it stores what it returns
StoredOnReturn(p) ==
    /\ seg'[p].cacheKey \in DOMAIN tweetGenerationCache'
    /\ tweetGenerationCache'[seg'[p].cacheKey] =
           [value |-> seg'[p].result, timestamp |-> now]

\* C19: whenever the call returns on a cache miss for a non-empty text T, the
\* returned sequence, from the generation response or from the fallback, is
\* stored in the generated-posts cache under trim(T) as the call returns.
C19_AlwaysStored ==
    [][\A p \in Submissions : ReturnsOnMiss(p) => StoredOnReturn(p)]_vars

\* C19 amended: the returned sequence is stored under trim(T), with the time of
\* the return, when the call returns from a parsed generation response (its
\* tweets list, or [T] when the response has no such list); when the call
\* returns [T] because the upstream call failed or its content did not parse,
\* the call leaves the cache as it was.
C19_StoredAfterParse ==
    [][\A p \in Submissions :
          ReturnsOnMiss(p) =>
              IF /\ seg'[p].received # <<>>
                 /\ seg'[p].received[1].kind \in {"tweets", "noTweets"}
              THEN StoredOnReturn(p)
              ELSE tweetGenerationCache' = tweetGenerationCache]_vars

\* One submission has returned the fallback of a response without a list and
\* finds it in the cache; the other has returned the fallback of a failed call
\* and its key is not in the cache.
C19_Witness ==
    \E p, q \in Submissions :
        /\ Returned(p) /\ ~seg[p].cacheHit
        /\ seg[p].received # <<>> /\ seg[p].received[1].kind = "noTweets"
        /\ seg[p].cacheKey \in DOMAIN tweetGenerationCache
        /\ tweetGenerationCache[seg[p].cacheKey].value = seg[p].result
        /\ Returned(q) /\ ~seg[q].cacheHit
        /\ seg[q].received = <<>> /\ seg[q].calls > 0
        /\ seg[q].cacheKey \notin DOMAIN tweetGenerationCache

\* The credential fields that are absent or empty in process.env
AbsentCredentials == {name \in Credentials : env[name] \in {"undefined", ""}}

(***************************************************************************)
(* Properties of postTweet                                                 *)
(***************************************************************************)
\* C25: postTweet rejects an empty, blank or over-long text with an error and
\* no publish call; with the credentials in place it makes exactly one
\* publish call, without reply reference, for any other text, a text of
\* exactly 280 characters included, and returns the identifier of that call.
C25_SinglePost ==
    post.pc # "idle"
    => /\ InvalidTweet(post.text) => (post.pc = "thrown" /\ Len(twitterCalls) = 0)
       /\ (~InvalidTweet(post.text) /\ AbsentCredentials = {})
          => /\ Len(twitterCalls) = 1
             /\ twitterCalls[1].text = post.text
             /\ twitterCalls[1].reply = <<>>
             /\ post.pc = "thrown" => twitterCalls[1].status = "failed"
       /\ post.pc = "returned"
          => /\ twitterCalls[1].status = "ok"
             /\ post.result = <<[id |-> twitterCalls[1].id]>>

\* A text of exactly 280 characters was published and its identifier returned.
C25_Witness ==
    /\ post.pc = "returned"
    /\ StrLen(post.text) = TWEET_LIMIT
    /\ post.result = <<[id |-> "1001"]>>

(***************************************************************************)
(* Properties of validateTwitterCredentials                                *)
(***************************************************************************)
\* C20: whatever subset of the four credential fields is absent or empty,
\* validateTwitterCredentials returns missingCredentials naming exactly that
\* subset, isValid is true exactly when the subset is empty, and no call to
\* the Twitter client is made.
C20_CredentialPresence ==
    [][(credentialCheck.pc = "idle" /\ credentialCheck'.pc = "responded")
       => LET r == credentialCheck'.credentialStatus[1]
          IN  /\ {r.missingCredentials[k] : k \in 1 .. Len(r.missingCredentials)}
                     = AbsentCredentials
              /\ Len(r.missingCredentials) = Cardinality(AbsentCredentials)
              /\ r.isValid <=> AbsentCredentials = {}
              /\ twitterCalls' = twitterCalls]_vars

\* The check has answered where one field is empty and another is unset.
C20_Witness ==
    /\ credentialCheck.pc = "responded"
    /\ env["TWITTER_API_KEY"] = ""
    /\ env["TWITTER_API_SECRET"] = "k3y"
    /\ env["TWITTER_ACCESS_TOKEN"] = "k3y"
    /\ env["TWITTER_ACCESS_SECRET"] = "undefined"
    /\ credentialCheck.status = 400

\* C21: when the upstream transcription call fails, transcribeAudio raises an
\* error whose message carries the upstream message and the transcription
\* cache is left as it was, so that a later call with the same audio that
\* finds no entry invokes the upstream again.
C21_TranscriptionFailure ==
    [][\A p \in Submissions :
          (tr[p].rejected = <<>> /\ tr'[p].rejected # <<>>)
          => /\ tr'[p].pc = "thrown"
             /\ tr'[p].error = <<"Transcription failed: ", tr'[p].rejected[1]>>
             /\ transcriptionCache' = transcriptionCache]_vars

\* One call has raised on "Connection error", no entry exists for its audio,
\* and the other call, on the same audio, has gone upstream.
C21_Witness ==
    \E p, q \in Submissions :
        /\ p # q
        /\ tr[p].pc = "thrown"
        /\ tr[p].rejected = <<"Connection error">>
        /\ tr[p].cacheKey \notin DOMAIN transcriptionCache
        /\ tr[q].audioBuffer = tr[p].audioBuffer
        /\ ~tr[q].cacheHit
        /\ tr[q].calls = 1

(***************************************************************************)
(* Properties of the two caches together                                   *)
(***************************************************************************)
\* C22: a step that writes to or evicts from one cache leaves the other as it
\* was, and a lookup hits only an entry of its own cache: a text whose
\* trimmed value spells the cache key of a cached audio buffer does not hit
\* the audio entry, and the audio does not hit the entry of such a text.
C22_CacheIndependence ==
    [][/\ transcriptionCache' # transcriptionCache
          => tweetGenerationCache' = tweetGenerationCache
       /\ tweetGenerationCache' # tweetGenerationCache
          => transcriptionCache' = transcriptionCache
       /\ \A p \in Submissions :
             /\ (seg[p].pc = "idle" /\ seg'[p].cacheHit)
                => /\ seg'[p].cacheKey \in DOMAIN tweetGenerationCache
                   /\ seg'[p].result = tweetGenerationCache[seg'[p].cacheKey].value
             /\ (tr[p].pc = "idle" /\ tr'[p].cacheHit)
                => /\ tr'[p].cacheKey \in DOMAIN transcriptionCache
                   /\ tr'[p].result = <<transcriptionCache[tr'[p].cacheKey].value>>]_vars

\* The audio is cached under the key that the text spells, the text was
\* looked up after that and went upstream.
C22_Witness ==
    /\ tr[1].pc = "returned"
    /\ tr[1].cacheKey \in DOMAIN transcriptionCache
    /\ seg[1].pc = "awaitCompletion"
    /\ seg[1].cacheKey = tr[1].cacheKey
    /\ tr[1].cacheKey \notin DOMAIN tweetGenerationCache
    /\ now - transcriptionCache[tr[1].cacheKey].timestamp < CACHE_EXPIRATION_MS

\* C26: when the upstream transcription result has no duration field, or a
\* null or zero one, the call is not failed by it: with its temporary file in
\* place it returns duration 0 with the upstream text.
C26_MissingDuration ==
    [][\A p \in Submissions :
          (/\ tr[p].received = <<>>
           /\ tr'[p].received # <<>>
           /\ \/ tr'[p].received[1].duration.field \in {"absent", "null"}
              \/ tr'[p].received[1].duration.value = 0)
          => IF tr[p].tempFile \in DOMAIN files
             THEN /\ tr'[p].pc = "returned"
                  /\ tr'[p].result[1].duration = 0
                  /\ tr'[p].result[1].text =
                         [heard |-> tr[p].sent, take |-> tr'[p].received[1].take]
             ELSE tr'[p].pc = "thrown"]_vars

\* A call has returned on a result without the field, another on a null one.
C26_Witness ==
    \E p, q \in Submissions :
        /\ tr[p].pc = "returned" /\ tr[p].received # <<>>
        /\ tr[p].received[1].duration.field = "absent"
        /\ tr[q].pc = "returned" /\ tr[q].received # <<>>
        /\ tr[q].received[1].duration.field = "null"

\* Two buffers of the same byte length, first 20 bytes and last 20 bytes
SameFingerprint(a, b) ==
    /\ StrLen(a) = StrLen(b)
    /\ Take(a, Min(20, StrLen(a))) = Take(b, Min(20, StrLen(b)))
    /\ Drop(a, Max(0, StrLen(a) - 20)) = Drop(b, Max(0, StrLen(b) - 20))

\* C27: once transcribeAudio(A) has returned from the upstream, a call on a
\* buffer B with A's cache key (same length, first 20 and last 20 bytes,
\* whatever its middle bytes and its format) that starts no more than
\* CACHE_EXPIRATION_MS after it finds A's entry: it makes no upstream call,
\* writes no temporary file and returns A's result.
C27_SequentialCacheHit ==
    [][\A p, q \in Submissions :
          (/\ p # q
           /\ tr[q].pc = "returned"
           /\ tr[p].pc = "idle"
           /\ tr'[p].pc # "idle"
           /\ SameFingerprint(tr'[p].audioBuffer, tr[q].audioBuffer))
          => /\ tr[q].cacheKey \in DOMAIN transcriptionCache
             /\ now - transcriptionCache[tr[q].cacheKey].timestamp <= CACHE_EXPIRATION_MS
                => /\ tr'[p].pc = "returned"
                   /\ tr'[p].calls = 0
                   /\ tr'[p].tempFile = <<>>
                   /\ files' = files
                   /\ tr'[p].result = tr[q].result]_vars

\* The second call, on a buffer with another middle and another format, has
\* hit the first call's entry exactly CACHE_EXPIRATION_MS after it was stored.
C27_Witness ==
    \E p, q \in Submissions :
        /\ tr[q].pc = "returned" /\ ~tr[q].cacheHit
        /\ tr[p].pc = "returned" /\ tr[p].cacheHit
        /\ tr[p].audioBuffer # tr[q].audioBuffer
        /\ tr[p].format # tr[q].format
        /\ tr[p].cacheKey \in DOMAIN transcriptionCache
        /\ now - transcriptionCache[tr[p].cacheKey].timestamp = CACHE_EXPIRATION_MS

\* A transcribeAudio call between its cache miss and its end
InFlight(p) == tr[p].pc \in {"upload", "awaitTranscription"}

\* C28: two transcribeAudio calls that overlap on cache misses, with different
\* audio and any formats, even started within the same millisecond, have each
\* their own temporary path; the upstream request of each reads only its own
\* audio and no call fails unless its own upstream request was rejected.
C28_DistinctArtifacts ==
    /\ \A p, q \in Submissions :
          (p # q /\ InFlight(p) /\ InFlight(q)) => tr[p].tempFile # tr[q].tempFile
    /\ \A p \in Submissions :
          /\ tr[p].sent # <<>> => tr[p].sent = tr[p].audioBuffer
          /\ tr[p].pc = "thrown" => tr[p].rejected # <<>>

\* C29: once a call on T1 has stored a sequence S, a call on a text T2 with
\* trim(T2) = trim(T1) made within the expiration period returns S and makes
\* no upstream call, also when T2 differs from T1 in its surrounding
\* whitespace.
C29_TrimmedCacheKey ==
    [][\A p, q \in Submissions :
          (/\ p # q
           /\ Returned(q) /\ ~seg[q].cacheHit
           /\ seg[q].received # <<>> /\ seg[q].received[1].kind # "unparsable"
           /\ seg[p].pc = "idle"
           /\ seg'[p].pc # "idle"
           /\ Trim(seg'[p].rawTranscript) = Trim(seg[q].rawTranscript))
          => /\ Trim(seg[q].rawTranscript) \in DOMAIN tweetGenerationCache
             /\ now - tweetGenerationCache[Trim(seg[q].rawTranscript)].timestamp
                    <= CACHE_EXPIRATION_MS
                => /\ Returned(p)'
                   /\ seg'[p].cacheHit
                   /\ seg'[p].calls = 0
                   /\ seg'[p].result = seg[q].result]_vars

\* A call on the padded text has hit the entry stored by the call on the bare
\* text.
C29_Witness ==
    \E p, q \in Submissions :
        /\ Returned(q) /\ ~seg[q].cacheHit
        /\ seg[q].rawTranscript = Str("a", 3)
        /\ seg[q].received # <<>> /\ seg[q].received[1].kind = "tweets"
        /\ Returned(p) /\ seg[p].cacheHit
        /\ seg[p].rawTranscript # seg[q].rawTranscript
        /\ seg[p].result = seg[q].result

\* C30: when a rate-limit failure carries no retry-after-ms header the wait
\* before the retry is exactly 1000 ms, below the cap 2000 * 2^k of every
\* attempt k, so that the waits of consecutive retries without a header do
\* not grow.
C30_DefaultDelay ==
    \A p \in Submissions :
        \A k \in 1 .. Len(seg[p].waits) :
            seg[p].suggested[k] = <<>>
            => /\ seg[p].waits[k] = 1000
               /\ seg[p].waits[k] < 2000 * 2 ^ k
               /\ (k > 1 /\ seg[p].suggested[k - 1] = <<>>)
                  => seg[p].waits[k] = seg[p].waits[k - 1]

\* A submission was rate-limited twice without a header and waited twice.
C30_Witness ==
    \E p \in Submissions :
        /\ seg[p].suggested = <<<<>>, <<>>>>
        /\ seg[p].waits = <<1000, 1000>>

(***************************************************************************)
(* Properties of the browser                                               *)
(***************************************************************************)
\* The requests of handler c sent after the j-th of the log
LaterRequests(c, j) == {k \in j + 1 .. Len(requests) : requests[k].by = c}

\* C23: on both post paths of the results screen a publish request is sent
\* only after the presence check answered valid and, after that, the
\* liveness check answered valid; after a failed presence check the handler
\* sends nothing more, after a failed liveness check it sends no publish
\* request.
C23_CheckOrdering ==
    \A j \in 1 .. Len(requests) :
        /\ requests[j].route = "post-tweet"
           => \E i, k \in 1 .. j - 1 :
                  /\ i < k
                  /\ requests[i].by = requests[j].by
                  /\ requests[i].route = "check-twitter-credentials"
                  /\ requests[i].response = "ok"
                  /\ requests[k].by = requests[j].by
                  /\ requests[k].route = "verify-twitter-credentials"
                  /\ requests[k].response = "ok"
        /\ (/\ requests[j].route = "check-twitter-credentials"
            /\ requests[j].response \in {"okError", "notOk", "threw"})
           => LaterRequests(requests[j].by, j) = {}
        /\ (/\ requests[j].route = "verify-twitter-credentials"
            /\ requests[j].response \in {"okError", "notOk", "threw"})
           => \A k \in LaterRequests(requests[j].by, j) : requests[k].route # "post-tweet"

\* A thread handler has sent its publish request, and a single-post handler
\* has ended on a presence check that threw.
C23_Witness ==
    \E c, e \in Clicks :
        /\ handlers[c].kind = "thread" /\ handlers[c].pc = "awaitPost"
        /\ handlers[e].kind = "single" /\ handlers[e].pc = "done"
        /\ \E j \in 1 .. Len(requests) :
               /\ requests[j].by = e
               /\ requests[j].route = "check-twitter-credentials"
               /\ requests[j].response = "threw"

\* A publish invocation of lib/twitter.ts (postTweet, postTweetThread) that
\* has not ended
PublishInFlight(c) == handlers[c].pc \in {"awaitLibVerify", "awaitPost"}

\* A segmentation request that has not been answered
SegmentationInFlight(c) == handlers[c].pc = "awaitTweets"

\* C24: from one results or processing screen, whatever the clicks, two
\* clicks delivered before the component re-renders included, two publish
\* invocations are never in flight together, nor two segmentation requests.
C24_AtMostOneInFlight ==
    /\ Cardinality({c \in Clicks : PublishInFlight(c)}) <= 1
    /\ Cardinality({c \in Clicks : SegmentationInFlight(c)}) <= 1

(***************************************************************************)
(* Upstream status in the errors of the Twitter client                     *)
(***************************************************************************)
\* error.message.includes("401"), ("403"), ("429"): the statuses that the
\* text of an upstream message spells
CodesIn(message) == IF message = "Request failed with code 401" THEN {401} ELSE {}

\* The statuses that the message of a raised error shows: those of the
\* upstream text it embeds and the one of its (HTTP ...) suffix
ShownStatus(error) ==
    CodesIn(error.detail) \cup (IF error.http # 0 THEN {error.http} ELSE {})

\* C31: when a publish call inside postTweetThread is rejected, the error
\* raised to the caller carries the upstream message and shows the upstream
\* status code, as the error of postTweet does.
C31_UpstreamStatusPreserved ==
    (thread.pc = "thrown" /\ thread.error.kind = "PublishFailed")
    => LET call == twitterCalls[Len(twitterCalls)]
       IN  /\ call.message # "" => thread.error.detail = call.message
           /\ call.code # 0 => call.code \in ShownStatus(thread.error)

\* The same statement for postTweet, which holds
PostStatusPreserved ==
    (post.pc = "thrown" /\ post.error.kind = "PublishFailed")
    => LET call == twitterCalls[Len(twitterCalls)]
       IN  /\ post.error.detail = call.message
           /\ call.code # 0 => call.code \in ShownStatus(post.error)

(***************************************************************************)
(* verifyTwitterCredentials                                                *)
(***************************************************************************)
\* The calls made to rwClient.v2.me()
MeCalls == {k \in 1 .. Len(twitterCalls) : twitterCalls[k].op = "me"}

\* C32: an invocation of verifyTwitterCredentials makes no network call when
\* one of the four credentials is absent and exactly one call to me()
\* otherwise; it never raises; it returns isValid = false with a message
\* when the presence check fails or the call fails, and isValid = true, with
\* the user the call returned, only when the call succeeded.
C32_LivenessCheck ==
    /\ verification.pc # "thrown"
    /\ \A k \in 1 .. Len(twitterCalls) : k \in MeCalls
    /\ AbsentCredentials # {} => MeCalls = {}
    /\ (AbsentCredentials = {} /\ verification.pc # "idle") => Cardinality(MeCalls) = 1
    /\ verification.pc = "awaitMe" => twitterCalls[1].status = "pending"
    /\ verification.pc = "returned" =>
           LET result == verification.result[1]
           IN  /\ (AbsentCredentials # {} \/ twitterCalls[1].status = "failed")
                  => (~result.isValid /\ result.message # <<>> /\ result.userData = <<>>)
               /\ result.isValid
                  => /\ AbsentCredentials = {}
                     /\ twitterCalls[1].status = "ok"
                     /\ result.userData # <<>>
                     /\ result.userData[1].id = twitterCalls[1].id

\* The call was rejected with a status the function has no message for, and
\* the function returned the upstream message.
C32_Witness ==
    /\ verification.pc = "returned"
    /\ MeCalls = {1}
    /\ twitterCalls[1].status = "failed"
    /\ twitterCalls[1].code = 429
    /\ verification.result[1] =
           [isValid |-> FALSE,
            message |-> <<"Twitter API error: ", "Too Many Requests">>,
            userData |-> <<>>]

(***************************************************************************)
(* The thread branch of POST /api/post-tweet (server/openai.ts)            *)
(***************************************************************************)
\* C33: for a tweets array of length n, every tweet after the first is
\* published with a reply reference equal to the identifier returned for
\* the previous tweet, and the response carries the n identifiers in order
\* with threadId equal to the first.
C33_RouteThread ==
    /\ \A k \in 2 .. Len(twitterCalls) :
           twitterCalls[k].reply = <<twitterCalls[k - 1].id>>
    /\ (endpoint.pc = "responded" /\ endpoint.status = 200) =>
           /\ Len(twitterCalls) = Len(endpoint.tweets)
           /\ endpoint.body[1].ids = [k \in 1 .. Len(endpoint.tweets) |-> twitterCalls[k].id]
           /\ endpoint.body[1].threadId = twitterCalls[1].id

\* What the handler does: the response, and the reply reference it prepares
\* for every tweet after the first without handing it to postTweet
RouteResponse ==
    /\ \A k \in 2 .. Len(endpoint.postOptions) :
           endpoint.postOptions[k].reply_to = ReplyArgument(<<twitterCalls[k - 1].id>>)
    /\ \A k \in 1 .. Len(twitterCalls) : twitterCalls[k].reply = <<>>
    /\ (endpoint.pc = "responded" /\ endpoint.status = 200) =>
           /\ Len(twitterCalls) = Len(endpoint.tweets)
           /\ endpoint.body[1].ids = [k \in 1 .. Len(endpoint.tweets) |-> twitterCalls[k].id]
           /\ endpoint.body[1].threadId = twitterCalls[1].id

(***************************************************************************)
(* Properties of Home and ProcessingSection                                *)
(***************************************************************************)
\* C34: after a click on Cancel on the processing screen, no callback of the
\* cancelled run, neither the pending transcription nor a segmentation
\* request started by Continue, changes the view or the tweet text: the
\* view stays "recording" until a new recording completes.
C34_CancelIsFinal ==
    [][home.cancelled =>
          /\ home'.viewState \in {"recording", "processing"}
          /\ home'.viewState = "processing" => home'.recordings # home.recordings
          /\ home'.tweetText = home.tweetText
          /\ home'.transcript = home.transcript]_vars

\* C35: when the view is "recording" and isCurrentlyProcessing is false, a
\* recording handed to handleRecordingComplete moves the view to
\* "processing", whatever came before, a blob of the size and type of the
\* one processed last included.
C35_RecordingNotDropped ==
    [][(/\ home'.recordings # home.recordings
        /\ home.viewState = "recording"
        /\ ~home.isCurrentlyProcessing)
       => home'.viewState = "processing"]_vars

\* The transcription requests that a ProcessingSection has sent
TranscriptionsSent(s) == {r \in DOMAIN sections[s].runs : sections[s].runs[r].sent}

\* C36: a ProcessingSection sends at most one transcription request for its
\* audio blob, however many times its effect runs again, while the first
\* request is pending and after it has completed.
C36_OneTranscriptionPerBlob ==
    \A s \in DOMAIN sections : Cardinality(TranscriptionsSent(s)) <= 1

\* While a transcription request is pending the effect starts no second run.
OneRunWhilePending ==
    \A s \in DOMAIN sections :
        (\E r \in DOMAIN sections[s].runs : sections[s].runs[r].pc # "done")
        => Cardinality({r \in DOMAIN sections[s].runs :
                           sections[s].runs[r].pc # "done"}) = 1

====
